---------------------------- MODULE Spec2Model ----------------------------
(***************************************************************************)
(* Serverless chat handlers of the Code Generation Portal:                 *)
(*   - the query analyzer (analyzeUserQuery, determineIntent),             *)
(*   - the multi-table search aggregator (performComprehensiveSearch,      *)
(*     performBroadSearch and the per-table search functions),             *)
(*   - the handlers with their credential checks and model fallback loops. *)
(* Strings are sequences of one-character strings, so that case folding,   *)
(* word boundaries, substring tests and the lastIndex of a global regular  *)
(* expression are computed the way the JavaScript engine computes them.    *)
(***************************************************************************)
EXTENDS Integers, Sequences, FiniteSets, TLC

(***************************************************************************)
(* Characters and strings                                                  *)
(***************************************************************************)
UpperLetters ==
    <<"A","B","C","D","E","F","G","H","I","J","K","L","M",
      "N","O","P","Q","R","S","T","U","V","W","X","Y","Z">>

LowerLetters ==
    <<"a","b","c","d","e","f","g","h","i","j","k","l","m",
      "n","o","p","q","r","s","t","u","v","w","x","y","z">>

Digits == {"0","1","2","3","4","5","6","7","8","9"}

Range(f) == { f[i] : i \in DOMAIN f }

\* the lower-case letter of each upper-case letter
LowerOf == [ c \in Range(UpperLetters) |->
               LowerLetters[CHOOSE i \in 1..26 : UpperLetters[i] = c] ]

WordChars == Range(UpperLetters) \cup Range(LowerLetters) \cup Digits \cup {"_"}

\* String.prototype.toLowerCase, one character
LowerChar(c) == IF c \in DOMAIN LowerOf THEN LowerOf[c] ELSE c

\* String.prototype.toLowerCase
toLowerCase(s) == [ i \in 1..Len(s) |-> LowerChar(s[i]) ]

\* the regular-expression classes \w, \s and \d
IsWordChar(c) == c \in WordChars

IsSpace(c) == c \in {" ", "\t", "\n"}

IsDigit(c) == c \in Digits

\* is there a word character at (1-based) position p of s
WordAt(s, p) == p >= 1 /\ p <= Len(s) /\ IsWordChar(s[p])

\* the assertion \b immediately before position p of s (p in 1..Len(s)+1)
WordBoundary(s, p) == WordAt(s, p - 1) # WordAt(s, p)

\* the literal lit occurs in s at position p; ic is the regex flag i
LitAt(s, p, lit, ic) ==
    /\ p >= 1
    /\ p + Len(lit) - 1 <= Len(s)
    /\ \A j \in 1..Len(lit) :
          IF ic THEN LowerChar(s[p + j - 1]) = LowerChar(lit[j])
                ELSE s[p + j - 1] = lit[j]

\* String.prototype.includes
includes(s, sub) == \E p \in 1..(Len(s) + 1) : LitAt(s, p, sub, FALSE)

\* Array.prototype.includes
InSeq(x, seq) == \E i \in 1..Len(seq) : seq[i] = x

SetMin(S) == CHOOSE x \in S : \A y \in S : x <= y

(***************************************************************************)
(* Regular expressions of the form /\b(a1|a2|...)\b/ : a record with the   *)
(* alternatives in source order and the i flag.  A global (g) regex keeps  *)
(* lastIndex between calls of test; the caller threads it.                 *)
(***************************************************************************)
RECURSIVE AltLenFrom(_, _, _, _)
\* length of the first alternative from index k on that matches at p and
\* ends at a word boundary, 0 when there is none
AltLenFrom(re, s, p, k) ==
    IF k > Len(re.alts) THEN 0
    ELSE IF LitAt(s, p, re.alts[k], re.i) /\ WordBoundary(s, p + Len(re.alts[k]))
    THEN Len(re.alts[k])
    ELSE AltLenFrom(re, s, p, k + 1)

\* length of the match of re that starts at position p, 0 when there is none
MatchLenAt(re, s, p) ==
    IF ~WordBoundary(s, p) THEN 0 ELSE AltLenFrom(re, s, p, 1)

RECURSIVE FirstMatch(_, _, _)
\* leftmost position >= from where re matches, 0 when there is none
FirstMatch(re, s, from) ==
    IF from > Len(s) THEN 0
    ELSE IF MatchLenAt(re, s, from) > 0 THEN from
    ELSE FirstMatch(re, s, from + 1)

\* RegExp.prototype.test of a global regex whose lastIndex is lastIndex:
\* the result and the new lastIndex
RegexTest(re, s, lastIndex) ==
    LET p == FirstMatch(re, s, lastIndex + 1)
    IN  IF p = 0 THEN [found |-> FALSE, lastIndex |-> 0]
        ELSE [found |-> TRUE, lastIndex |-> p + MatchLenAt(re, s, p) - 1]

\* String.prototype.match of a non-global regex, as a truth value
RegexMatches(re, s) == FirstMatch(re, s, 1) # 0

RECURSIVE MatchAllFrom(_, _, _)
\* String.prototype.match of a global regex: every match, left to right
MatchAllFrom(re, s, from) ==
    LET p == FirstMatch(re, s, from)
    IN  IF p = 0 THEN << >>
        ELSE LET n == MatchLenAt(re, s, p)
             IN  << SubSeq(s, p, p + n - 1) >> \o MatchAllFrom(re, s, p + n)

RECURSIVE Dedupe(_)
\* [...new Set(seq)]: first occurrences, in order
Dedupe(seq) ==
    IF seq = << >> THEN << >>
    ELSE LET front == Dedupe(SubSeq(seq, 1, Len(seq) - 1))
             last  == seq[Len(seq)]
         IN  IF InSeq(last, front) THEN front ELSE Append(front, last)

RECURSIVE SkipSpace(_, _)
\* the first position >= p of s that holds no whitespace (\s* is greedy)
SkipSpace(s, p) ==
    IF p <= Len(s) /\ IsSpace(s[p]) THEN SkipSpace(s, p + 1) ELSE p

TwoDigitsAt(s, p) == p >= 1 /\ p + 1 <= Len(s) /\ IsDigit(s[p]) /\ IsDigit(s[p + 1])

\* length of the match of /\b\d{2}(\s*\d{2}(\s*\d{2})?)?\b/ at p, 0 if none:
\* the longest of the three forms whose end is a word boundary
CsiMatchLenAt(s, p) ==
    IF ~(WordBoundary(s, p) /\ TwoDigitsAt(s, p)) THEN 0
    ELSE LET e2 == p + 2
             q2 == SkipSpace(s, e2)
             e4 == q2 + 2
             q3 == SkipSpace(s, e4)
             e6 == q3 + 2
             has4 == TwoDigitsAt(s, q2)
             has6 == has4 /\ TwoDigitsAt(s, q3)
         IN  IF has6 /\ WordBoundary(s, e6) THEN e6 - p
             ELSE IF has4 /\ WordBoundary(s, e4) THEN e4 - p
             ELSE IF WordBoundary(s, e2) THEN 2
             ELSE 0

RECURSIVE CsiMatchAllFrom(_, _)
\* every match of the CSI pattern from position from on, left to right
CsiMatchAllFrom(s, from) ==
    IF from > Len(s) THEN << >>
    ELSE LET n == CsiMatchLenAt(s, from)
         IN  IF n = 0 THEN CsiMatchAllFrom(s, from + 1)
             ELSE << SubSeq(s, from, from + n - 1) >> \o CsiMatchAllFrom(s, from + n)

RECURSIVE SplitNonWordNonSpace(_)
\* String.prototype.split(/[^\w\s]/): cut at every character that is
\* neither a word character nor whitespace
SplitNonWordNonSpace(s) ==
    LET cuts == { p \in 1..Len(s) : ~IsWordChar(s[p]) /\ ~IsSpace(s[p]) }
    IN  IF cuts = {} THEN << s >>
        ELSE LET p == SetMin(cuts)
             IN  << SubSeq(s, 1, p - 1) >> \o SplitNonWordNonSpace(SubSeq(s, p + 1, Len(s)))

(***************************************************************************)
(* analyzeUserQuery: the keyword patterns                                  *)
(***************************************************************************)
materialKeywords ==
    [ i |-> TRUE,
      alts |-> << <<"s","t","e","e","l">>,
                  <<"e","l","e","c","t","r","i","c","a","l">>,
                  <<"m","e","c","h","a","n","i","c","a","l">>,
                  <<"p","l","u","m","b","i","n","g">>,
                  <<"h","v","a","c">>,
                  <<"c","o","n","c","r","e","t","e">>,
                  <<"u","p","v","c">>,
                  <<"a","l","u","m","i","n","u","m">>,
                  <<"c","o","p","p","e","r">>,
                  <<"p","v","c">>,
                  <<"p","i","p","e">>,
                  <<"v","a","l","v","e">>,
                  <<"c","o","n","d","u","i","t">>,
                  <<"c","a","b","l","e">>,
                  <<"f","i","t","t","i","n","g">>,
                  <<"p","u","m","p">>,
                  <<"m","o","t","o","r">>,
                  <<"s","w","i","t","c","h">>,
                  <<"p","a","n","e","l">>,
                  <<"d","u","c","t">>,
                  <<"b","e","a","m">>,
                  <<"w","i","r","e">>,
                  <<"i","n","s","u","l","a","t","i","o","n">> >> ]

projectKeywords ==
    [ i |-> TRUE,
      alts |-> << <<"p","r","o","j","e","c","t">>,
                  <<"c","l","a","s","s","i","f","i","c","a","t","i","o","n">>,
                  <<"d","i","v","i","s","i","o","n">>,
                  <<"s","e","c","t","i","o","n">>,
                  <<"c","s","i">>,
                  <<"c","a","t","e","g","o","r","y">> >> ]

itemCodeKeywords ==
    [ i |-> TRUE,
      alts |-> << <<"i","t","e","m"," ","c","o","d","e">>,
                  <<"c","o","d","e">>,
                  <<"p","a","r","t">>,
                  <<"c","o","m","p","o","n","e","n","t">>,
                  <<"m","a","t","e","r","i","a","l">>,
                  <<"e","q","u","i","p","m","e","n","t">>,
                  <<"p","r","o","d","u","c","t">> >> ]

userKeywords ==
    [ i |-> TRUE,
      alts |-> << <<"u","s","e","r">>,
                  <<"r","e","v","i","e","w","e","r">>,
                  <<"a","d","m","i","n">>,
                  <<"c","r","e","a","t","e","d"," ","b","y">>,
                  <<"a","p","p","r","o","v","e","d"," ","b","y">>,
                  <<"p","e","r","s","o","n">>,
                  <<"s","t","a","f","f">>,
                  <<"t","e","a","m">> >> ]

statusKeywords ==
    [ i |-> TRUE,
      alts |-> << <<"p","e","n","d","i","n","g">>,
                  <<"a","p","p","r","o","v","e","d">>,
                  <<"r","e","j","e","c","t","e","d">>,
                  <<"s","t","a","t","u","s">>,
                  <<"r","e","v","i","e","w">>,
                  <<"w","o","r","k","f","l","o","w">>,
                  <<"s","u","b","m","i","t","t","e","d">>,
                  <<"d","r","a","f","t">> >> ]

manufacturerKeywords ==
    [ i |-> TRUE,
      alts |-> << <<"m","a","n","u","f","a","c","t","u","r","e","r">>,
                  <<"s","u","p","p","l","i","e","r">>,
                  <<"v","e","n","d","o","r">>,
                  <<"b","r","a","n","d">>,
                  <<"c","o","m","p","a","n","y">>,
                  <<"m","a","d","e"," ","b","y">> >> ]

attributeKeywords ==
    [ i |-> TRUE,
      alts |-> << <<"a","t","t","r","i","b","u","t","e">>,
                  <<"p","r","o","p","e","r","t","y">>,
                  <<"s","p","e","c","i","f","i","c","a","t","i","o","n">>,
                  <<"f","e","a","t","u","r","e">>,
                  <<"c","h","a","r","a","c","t","e","r","i","s","t","i","c">> >> ]

requestKeywords ==
    [ i |-> TRUE,
      alts |-> << <<"r","e","q","u","e","s","t">>,
                  <<"s","u","b","m","i","s","s","i","o","n">>,
                  <<"a","p","p","l","i","c","a","t","i","o","n">> >> ]

priceKeywords ==
    [ i |-> TRUE,
      alts |-> << <<"p","r","i","c","e">>,
                  <<"c","o","s","t">>,
                  <<"e","x","p","e","n","s","i","v","e">>,
                  <<"c","h","e","a","p">>,
                  <<"b","u","d","g","e","t">>,
                  <<"c","u","r","r","e","n","c","y">> >> ]

dateKeywords ==
    [ i |-> TRUE,
      alts |-> << <<"t","o","d","a","y">>,
                  <<"y","e","s","t","e","r","d","a","y">>,
                  <<"w","e","e","k">>,
                  <<"m","o","n","t","h">>,
                  <<"y","e","a","r">>,
                  <<"r","e","c","e","n","t">>,
                  <<"l","a","t","e","s","t">>,
                  <<"c","r","e","a","t","e","d">>,
                  <<"u","p","d","a","t","e","d">> >> ]

\* the stop-words dropped from searchTerms
stopWords ==
    << <<"t","h","e">>,
       <<"a","n","d">>,
       <<"f","o","r">>,
       <<"a","r","e">>,
       <<"w","i","t","h">>,
       <<"a","n","y">>,
       <<"a","l","l">>,
       <<"c","a","n">>,
       <<"y","o","u">>,
       <<"s","h","o","w">>,
       <<"f","i","n","d">>,
       <<"g","e","t">>,
       <<"l","i","s","t">> >>

\* determineIntent: the patterns in the order they are tested, each with
\* the intent it returns
intentPatterns ==
    << [ intent |-> "search",
         re |-> [ i |-> FALSE, alts |-> << <<"s","h","o","w">>, <<"l","i","s","t">>, <<"f","i","n","d">>, <<"g","e","t">>, <<"s","e","a","r","c","h">> >> ] ],
       [ intent |-> "count",
         re |-> [ i |-> FALSE, alts |-> << <<"h","o","w"," ","m","a","n","y">>, <<"c","o","u","n","t">>, <<"t","o","t","a","l">>, <<"n","u","m","b","e","r">> >> ] ],
       [ intent |-> "who",
         re |-> [ i |-> FALSE, alts |-> << <<"w","h","o">>, <<"c","r","e","a","t","e","d">>, <<"a","p","p","r","o","v","e","d">>, <<"r","e","v","i","e","w","e","d">> >> ] ],
       [ intent |-> "when",
         re |-> [ i |-> FALSE, alts |-> << <<"w","h","e","n">>, <<"d","a","t","e">>, <<"t","i","m","e">>, <<"r","e","c","e","n","t">> >> ] ],
       [ intent |-> "why",
         re |-> [ i |-> FALSE, alts |-> << <<"w","h","y">>, <<"r","e","a","s","o","n">>, <<"c","o","m","m","e","n","t">> >> ] ],
       [ intent |-> "compare",
         re |-> [ i |-> FALSE, alts |-> << <<"c","o","m","p","a","r","e">>, <<"v","e","r","s","u","s">>, <<"d","i","f","f","e","r","e","n","c","e">> >> ] ],
       [ intent |-> "status",
         re |-> [ i |-> FALSE, alts |-> << <<"s","t","a","t","u","s">>, <<"p","e","n","d","i","n","g">>, <<"a","p","p","r","o","v","e","d">>, <<"r","e","j","e","c","t","e","d">> >> ] ] >>

(***************************************************************************)
(* analyzeUserQuery                                                        *)
(***************************************************************************)
\* materials: the distinct matches of materialKeywords, lower-cased
ExtractMaterials(lower) ==
    LET matches == MatchAllFrom(materialKeywords, lower, 1)
    IN  Dedupe([ k \in 1..Len(matches) |-> toLowerCase(matches[k]) ])

\* csiCodes: lower.match(/\b\d{2}(\s*\d{2}(\s*\d{2})?)?\b/g) || []
ExtractCsiCodes(lower) == CsiMatchAllFrom(lower, 1)

IsSearchTerm(term) == Len(term) > 2 /\ ~InSeq(term, stopWords)

\* searchTerms: the pieces of the split that are longer than 2 and are not
\* a stop-word
ExtractSearchTerms(lower) == SelectSeq(SplitNonWordNonSpace(lower), IsSearchTerm)

VARIABLES
    lastIndexLeft,  \* the lastIndex each keyword pattern of the latest call of
                    \* analyzeUserQuery held when the call returned
    analysed        \* the calls of analyzeUserQuery so far: message and result

\* the keyword patterns analyzeUserQuery calls test() on
KeywordPattern(name) ==
    CASE name = "projectKeywords"      -> projectKeywords
      [] name = "itemCodeKeywords"     -> itemCodeKeywords
      [] name = "userKeywords"         -> userKeywords
      [] name = "requestKeywords"      -> requestKeywords
      [] name = "statusKeywords"       -> statusKeywords
      [] name = "manufacturerKeywords" -> manufacturerKeywords
      [] name = "attributeKeywords"    -> attributeKeywords
      [] name = "priceKeywords"        -> priceKeywords
      [] name = "dateKeywords"         -> dateKeywords

\* every pattern at the start of the text
NoMatchPositions ==
    [ projectKeywords      |-> 0,
      itemCodeKeywords     |-> 0,
      userKeywords         |-> 0,
      requestKeywords      |-> 0,
      statusKeywords       |-> 0,
      manufacturerKeywords |-> 0,
      attributeKeywords    |-> 0,
      priceKeywords        |-> 0,
      dateKeywords         |-> 0 ]

\* the patterns are created once and shared by all calls: each starts a
\* call with the lastIndex the call before left
KeywordLastIndex_KeptBetweenCalls(name) == lastIndexLeft[name]

\* the lastIndex of a keyword pattern when a call first tests it: every
\* call evaluates the regex literals anew, and a new RegExp starts at 0
KeywordLastIndex(name) == 0

\* searchProjects
SearchProjectsFlag(lower, materials, csiCodes) ==
    \/ RegexTest(projectKeywords, lower, KeywordLastIndex("projectKeywords")).found
    \/ Len(csiCodes) > 0
    \/ Len(materials) > 0

\* searchItemCodes without the materials disjunct
SearchItemCodesFlag_NoMaterials(lower, materials) ==
    \/ RegexTest(itemCodeKeywords, lower, KeywordLastIndex("itemCodeKeywords")).found
    \/ includes(lower, <<"i","t","e","m">>)
    \/ includes(lower, <<"c","o","d","e">>)

\* searchItemCodes
SearchItemCodesFlag(lower, materials) ==
    \/ RegexTest(itemCodeKeywords, lower, KeywordLastIndex("itemCodeKeywords")).found
    \/ Len(materials) > 0
    \/ includes(lower, <<"i","t","e","m">>)
    \/ includes(lower, <<"c","o","d","e">>)

\* The one statusKeywords object is tested for searchRequests (only when
\* requestKeywords did not match: || short-circuits), then for
\* searchReviews, then for searchStatus; being global, each test starts at
\* the lastIndex the previous one left.
StatusKeywordTests(lower) ==
    LET requestHit == RegexTest(requestKeywords, lower, KeywordLastIndex("requestKeywords")).found
        t1 == IF requestHit
              THEN [found |-> FALSE, lastIndex |-> KeywordLastIndex("statusKeywords")]
              ELSE RegexTest(statusKeywords, lower, KeywordLastIndex("statusKeywords"))
        t2 == RegexTest(statusKeywords, lower, t1.lastIndex)
        t3 == RegexTest(statusKeywords, lower, t2.lastIndex)
    IN  [ searchRequests |-> requestHit \/ t1.found,
          searchReviews  |-> t2.found \/ includes(lower, <<"r","e","v","i","e","w">>),
          searchStatus   |-> t3.found,
          lastIndex      |-> t3.lastIndex ]

RECURSIVE FirstIntent_LastWins(_, _)
\* the patterns are all tested and a later match replaces an earlier one
FirstIntent_LastWins(lower, k) ==
    IF k > Len(intentPatterns) THEN "general"
    ELSE LET later == FirstIntent_LastWins(lower, k + 1)
         IN  IF later # "general" THEN later
             ELSE IF RegexMatches(intentPatterns[k].re, lower) THEN intentPatterns[k].intent
             ELSE "general"

RECURSIVE FirstIntent(_, _)
\* the intent of the first pattern from index k on that matches lower
FirstIntent(lower, k) ==
    IF k > Len(intentPatterns) THEN "general"
    ELSE IF RegexMatches(intentPatterns[k].re, lower) THEN intentPatterns[k].intent
    ELSE FirstIntent(lower, k + 1)

determineIntent(lower) == FirstIntent(lower, 1)

\* the lastIndex a keyword pattern tested once holds after its test
LastIndexOf(name, lower) ==
    RegexTest(KeywordPattern(name), lower, KeywordLastIndex(name)).lastIndex

\* the lastIndex of each keyword pattern when analyzeUserQuery returns:
\* statusKeywords after the last of its tests, the others after their one
\* test
LastIndexAfter(userMessage) ==
    LET lower == toLowerCase(userMessage)
    IN  [ projectKeywords      |-> LastIndexOf("projectKeywords", lower),
          itemCodeKeywords     |-> LastIndexOf("itemCodeKeywords", lower),
          userKeywords         |-> LastIndexOf("userKeywords", lower),
          requestKeywords      |-> LastIndexOf("requestKeywords", lower),
          statusKeywords       |-> StatusKeywordTests(lower).lastIndex,
          manufacturerKeywords |-> LastIndexOf("manufacturerKeywords", lower),
          attributeKeywords    |-> LastIndexOf("attributeKeywords", lower),
          priceKeywords        |-> LastIndexOf("priceKeywords", lower),
          dateKeywords         |-> LastIndexOf("dateKeywords", lower) ]

analyzeUserQuery(userMessage) ==
    LET lower       == toLowerCase(userMessage)
        materials   == ExtractMaterials(lower)
        csiCodes    == ExtractCsiCodes(lower)
        searchTerms == ExtractSearchTerms(lower)
        st          == StatusKeywordTests(lower)
    IN  [ originalQuery       |-> userMessage,
          materials           |-> materials,
          csiCodes            |-> csiCodes,
          searchTerms         |-> searchTerms,
          searchProjects      |-> SearchProjectsFlag(lower, materials, csiCodes),
          searchItemCodes     |-> SearchItemCodesFlag(lower, materials),
          searchUsers         |-> RegexTest(userKeywords, lower, KeywordLastIndex("userKeywords")).found,
          searchRequests      |-> st.searchRequests,
          searchManufacturers |-> RegexTest(manufacturerKeywords, lower, KeywordLastIndex("manufacturerKeywords")).found,
          searchAttributes    |-> RegexTest(attributeKeywords, lower, KeywordLastIndex("attributeKeywords")).found,
          searchReviews       |-> st.searchReviews,
          searchStatus        |-> st.searchStatus,
          includePrice        |-> RegexTest(priceKeywords, lower, KeywordLastIndex("priceKeywords")).found,
          includeDate         |-> RegexTest(dateKeywords, lower, KeywordLastIndex("dateKeywords")).found,
          includeStatus       |-> TRUE,
          intent              |-> determineIntent(lower),
          complexity          |-> IF Len(searchTerms) > 3 THEN "complex" ELSE "simple" ]

(***************************************************************************)
(* Messages                                                                *)
(***************************************************************************)
\* the most words a generated message has
MaxWords == 2

\* the words messages are made of
Words ==
    << <<"p","e","n","d","i","n","g">>,
       <<"a","p","p","r","o","v","a","l","s">>,
       <<"S","t","e","e","l">>,
       <<"s","t","e","e","l">>,
       <<"s","t","e","e","l","s">>,
       <<"U","P","V","C">>,
       <<"p","i","p","e">>,
       <<"r","e","v","i","e","w">>,
       <<"r","e","q","u","e","s","t">>,
       <<"0","3">>,
       <<"c","o","d","e">> >>

\* what stands between two words of a message
Separators == << <<" ">>, <<",", " ">> >>

RECURSIVE JoinWords(_, _)
\* the words ws[1], ws[2], ... joined by the separators seps[1], seps[2], ...
JoinWords(ws, seps) ==
    IF Len(ws) = 0 THEN << >>
    ELSE IF Len(ws) = 1 THEN Words[ws[1]]
    ELSE Words[ws[1]] \o Separators[seps[1]] \o JoinWords(Tail(ws), Tail(seps))

GeneratedMessages ==
    { JoinWords(ws, seps) :
        <<ws, seps>> \in UNION { [1..n -> 1..Len(Words)] \X [1..(n - 1) -> 1..Len(Separators)]
                                   : n \in 0..MaxWords } }

ShowMePendingApprovals == <<"s","h","o","w"," ","m","e"," ","p","e","n","d","i","n","g"," ","a","p","p","r","o","v","a","l","s">>

FindUpvcPipeProjects == <<"f","i","n","d"," ","u","p","v","c"," ","p","i","p","e"," ","p","r","o","j","e","c","t","s">>

\* the stop-words the stop-word messages are made of
StopWordSample == << 1, 2, 10, 13 >>

RECURSIVE JoinStopWords(_)
\* the stop-words of the indices ws, one space between two of them
JoinStopWords(ws) ==
    IF Len(ws) = 0 THEN << >>
    ELSE IF Len(ws) = 1 THEN stopWords[StopWordSample[ws[1]]]
    ELSE stopWords[StopWordSample[ws[1]]] \o <<" ">> \o JoinStopWords(Tail(ws))

\* the messages of at most MaxWords stop-words (the empty message included)
StopWordMessages ==
    { JoinStopWords(ws) : ws \in UNION { [1..n -> 1..Len(StopWordSample)] : n \in 0..MaxWords } }

\* messages that match one or several of the patterns of determineIntent
IntentMessages ==
    { <<"h","o","w"," ","m","a","n","y"," ","p","e","n","d","i","n","g">>,
      <<"w","h","o"," ","a","p","p","r","o","v","e","d">>,
      <<"a","p","p","r","o","v","e","d">>,
      <<"r","e","c","e","n","t"," ","s","t","a","t","u","s">>,
      <<"w","h","y"," ","c","o","m","p","a","r","e">>,
      <<"c","o","m","p","a","r","e"," ","s","t","a","t","u","s">>,
      <<"c","o","u","n","t"," ","l","i","s","t">>,
      <<"w","h","e","n"," ","c","r","e","a","t","e","d">>,
      <<"S","H","O","W"," ","T","O","T","A","L">>,
      <<"s","h","o","w","n"," ","t","o","t","a","l","s">>,
      <<"h","e","l","l","o">> }

Messages ==
    GeneratedMessages \cup StopWordMessages \cup IntentMessages
        \cup { ShowMePendingApprovals, FindUpvcPipeProjects }

NoValue == [ none |-> TRUE ]

(***************************************************************************)
(* JavaScript objects with optional properties are functions whose domain  *)
(* is the set of the properties present.                                   *)
(***************************************************************************)
Has(obj, key) == key \in DOMAIN obj

\* obj[key] = val
SetProp(obj, key, val) ==
    [ k \in DOMAIN obj \cup {key} |-> IF k = key THEN val ELSE obj[k] ]

\* Object.assign(target, source)
ObjectAssign(target, source) ==
    [ k \in DOMAIN target \cup DOMAIN source |->
        IF k \in DOMAIN source THEN source[k] ELSE target[k] ]

(***************************************************************************)
(* The row store.  A store maps each table to its rows; a row has an id,   *)
(* a creation time, a division code and text columns.  A query is what     *)
(* the search functions build: the table, the OR-combined ilike filters,   *)
(* the optional IN list on division_code, the limit and the ordering.      *)
(***************************************************************************)
\* the categories in the order performComprehensiveSearch visits them
Categories ==
    << [ key |-> "projects",      table |-> "classification_projects" ],
       [ key |-> "itemCodes",     table |-> "item_code_workflow" ],
       [ key |-> "users",         table |-> "users" ],
       [ key |-> "requests",      table |-> "standard_value_requests" ],
       [ key |-> "manufacturers", table |-> "project_manufacturers" ],
       [ key |-> "attributes",    table |-> "project_attributes" ],
       [ key |-> "reviews",       table |-> "review_logs" ] >>

CategoryKeys == { Categories[k].key : k \in 1..Len(Categories) }

Tables == { Categories[k].table : k \in 1..Len(Categories) }

\* Array.prototype.slice(0, n)
SliceFirst(seq, n) == SubSeq(seq, 1, IF Len(seq) < n THEN Len(seq) ELSE n)

\* keywords.map(k => `c1.ilike.%k%,c2.ilike.%k%,...`).join(','): one filter
\* per keyword and column, keyword-major
RECURSIVE IlikeFilters(_, _)
IlikeFilters(keywords, columns) ==
    IF keywords = << >> THEN << >>
    ELSE [ c \in 1..Len(columns) |-> [ column |-> columns[c], keyword |-> Head(keywords) ] ]
         \o IlikeFilters(Tail(keywords), columns)

projectMaterialColumns ==
    << "project_name", "division_description", "section_description",
       "detailed_section_description", "item_description" >>

projectTermColumns ==
    << "project_name", "division_description", "section_description", "item_description" >>

itemCodeColumns == << "item_code", "description1", "description2", "manufacturer" >>

\* the query searchProjects builds
ProjectsQuery(a) ==
    [ table   |-> "classification_projects",
      limit   |-> 10,
      ordered |-> TRUE,
      filters |-> IF Len(a.materials) > 0
                  THEN IlikeFilters(a.materials, projectMaterialColumns)
                  ELSE IF Len(a.searchTerms) > 0
                  THEN IlikeFilters(SliceFirst(a.searchTerms, 3), projectTermColumns)
                  ELSE << >>,
      inDivisionCode |-> a.csiCodes ]

\* the item-code query with every search term instead of the first three
ItemCodesQuery_AllTerms(a) ==
    [ table   |-> "item_code_workflow",
      limit   |-> 15,
      ordered |-> TRUE,
      filters |-> IF Len(a.materials) > 0
                  THEN IlikeFilters(a.materials, itemCodeColumns)
                  ELSE IlikeFilters(a.searchTerms, itemCodeColumns),
      inDivisionCode |-> << >> ]

\* the query searchItemCodes builds
ItemCodesQuery(a) ==
    [ table   |-> "item_code_workflow",
      limit   |-> 15,
      ordered |-> TRUE,
      filters |-> IF Len(a.materials) > 0
                  THEN IlikeFilters(a.materials, itemCodeColumns)
                  ELSE IF Len(a.searchTerms) > 0
                  THEN IlikeFilters(SliceFirst(a.searchTerms, 3), itemCodeColumns)
                  ELSE << >>,
      inDivisionCode |-> << >> ]

\* the query searchUsers builds
UsersQuery(a) ==
    [ table   |-> "users",
      limit   |-> 10,
      ordered |-> FALSE,
      filters |-> IlikeFilters(a.searchTerms, << "username", "email", "role" >>),
      inDivisionCode |-> << >> ]

\* the query searchRequests builds
RequestsQuery(a) ==
    [ table   |-> "standard_value_requests",
      limit   |-> 10,
      ordered |-> TRUE,
      filters |-> IlikeFilters(a.searchTerms, << "attribute_name", "new_value", "reason" >>),
      inDivisionCode |-> << >> ]

\* the query searchManufacturers builds
ManufacturersQuery(a) ==
    [ table   |-> "project_manufacturers",
      limit   |-> 10,
      ordered |-> FALSE,
      filters |-> IlikeFilters(a.materials \o a.searchTerms, << "manufacturer_name" >>),
      inDivisionCode |-> << >> ]

\* the query searchAttributes builds
AttributesQuery(a) ==
    [ table   |-> "project_attributes",
      limit   |-> 10,
      ordered |-> FALSE,
      filters |-> IlikeFilters(a.searchTerms, << "attribute_name" >>),
      inDivisionCode |-> << >> ]

\* the query searchReviews builds
ReviewsQuery(a) ==
    [ table   |-> "review_logs",
      limit   |-> 10,
      ordered |-> TRUE,
      filters |-> << >>,
      inDivisionCode |-> << >> ]

\* the query of category k (an index of Categories)
CategoryQuery(k, a) ==
    CASE k = 1 -> ProjectsQuery(a)
      [] k = 2 -> ItemCodesQuery(a)
      [] k = 3 -> UsersQuery(a)
      [] k = 4 -> RequestsQuery(a)
      [] k = 5 -> ManufacturersQuery(a)
      [] k = 6 -> AttributesQuery(a)
      [] k = 7 -> ReviewsQuery(a)

\* the comparison keeps the case of the letters (LIKE instead of ILIKE)
IlikeMatches_CaseSensitive(row, f) ==
    /\ f.column \in DOMAIN row.text
    /\ includes(row.text[f.column], f.keyword)

\* column ILIKE '%keyword%' on a row; a column the row lacks is null
IlikeMatches(row, f) ==
    /\ f.column \in DOMAIN row.text
    /\ includes(toLowerCase(row.text[f.column]), toLowerCase(f.keyword))

\* the IN list is one more alternative of the OR instead of a further condition
RowMatches_EitherFilter(row, q) ==
    \/ q.filters = << >> /\ q.inDivisionCode = << >>
    \/ \E i \in 1..Len(q.filters) : IlikeMatches(row, q.filters[i])
    \/ InSeq(row.division_code, q.inDivisionCode)

\* a row passes the OR of the ilike terms and the IN list on division_code
RowMatches(row, q) ==
    /\ q.filters = << >> \/ \E i \in 1..Len(q.filters) : IlikeMatches(row, q.filters[i])
    /\ q.inDivisionCode = << >> \/ InSeq(row.division_code, q.inDivisionCode)

RECURSIVE NewestFirst(_)
\* ORDER BY created_at DESC (creation times are distinct within a table)
NewestFirst(rows) ==
    IF rows = << >> THEN << >>
    ELSE LET m == CHOOSE i \in 1..Len(rows) :
                     \A j \in 1..Len(rows) : rows[j].created_at <= rows[i].created_at
         IN  << rows[m] >> \o NewestFirst(SubSeq(rows, 1, m - 1) \o SubSeq(rows, m + 1, Len(rows)))

\* the rows the store returns for query q
StoreSelect(st, q) ==
    LET hits == SelectSeq(st[q.table], LAMBDA row : RowMatches(row, q))
    IN  SliceFirst(IF q.ordered THEN NewestFirst(hits) ELSE hits, q.limit)

(***************************************************************************)
(* Store contents                                                          *)
(***************************************************************************)
\* the most rows a store holds
MaxStoreRows == 2

\* the values a column of a row can hold
Str(s) == [ t |-> "string", v |-> s ]

Num(n) == [ t |-> "number", v |-> n ]

Bool(b) == [ t |-> "boolean", v |-> b ]

Null == [ t |-> "null" ]

Undefined == [ t |-> "undefined" ]

\* a joined row (users!created_by(username) and the like)
Obj(fields) == [ t |-> "object", v |-> fields ]

\* a row without further columns
NoColumns == [ x \in {} |-> Null ]

\* the rows stores are made of: text holds the columns the filters read,
\* other the remaining columns and the joined rows
FixtureRows ==
    << [ table |-> "classification_projects",
         row |-> [ id |-> 1, created_at |-> 1, division_code |-> <<"2","2">>,
                   text |-> [ project_name |-> <<"U","P","V","C"," ","D","i","s","t","r","i","b","u","t","i","o","n"," ","U","p","g","r","a","d","e">> ],
                   other |-> [ status |-> Str(<<"a","c","t","i","v","e">>), users |-> Obj([ username |-> Str(<<"a","d","m","i","n">>) ]) ] ] ],
       [ table |-> "classification_projects",
         row |-> [ id |-> 2, created_at |-> 2, division_code |-> <<"0","3">>,
                   text |-> [ project_name |-> <<"H","e","l","l","o"," ","T","o","w","e","r">>, item_description |-> <<"S","t","e","e","l"," ","b","e","a","m">> ],
                   other |-> NoColumns ] ],
       [ table |-> "item_code_workflow",
         row |-> [ id |-> 3, created_at |-> 1, division_code |-> << >>,
                   text |-> [ item_code |-> <<"I","C","-","1","0","0">>, description1 |-> <<"S","t","e","e","l"," ","p","i","p","e">>, description2 |-> << >> ],
                   other |-> [ unit_price |-> Num(0), currency_code |-> Str(<<"U","S","D">>), erp_integrated |-> Bool(FALSE), status |-> Str(<<"d","r","a","f","t">>) ] ] ],
       [ table |-> "users",
         row |-> [ id |-> 4, created_at |-> 1, division_code |-> << >>,
                   text |-> [ username |-> <<"a","d","m","i","n">>, role |-> <<"s","i","t","e"," ","u","s","e","r">> ],
                   other |-> [ status |-> Str(<<"a","c","t","i","v","e">>) ] ] ],
       [ table |-> "review_logs",
         row |-> [ id |-> 5, created_at |-> 1, division_code |-> << >>,
                   text |-> [ action |-> <<"a","p","p","r","o","v","e","d">> ],
                   other |-> [ comments |-> Null ] ] ],
       [ table |-> "standard_value_requests",
         row |-> [ id |-> 6, created_at |-> 1, division_code |-> << >>,
                   text |-> [ attribute_name |-> <<"F","i","r","e"," ","a","t","t","r","i","b","u","t","e">>, new_value |-> <<"A","1">>, reason |-> << >> ],
                   other |-> [ status |-> Str(<<"p","e","n","d","i","n","g">>), classification_projects |-> Obj([ project_name |-> Str(<<"H","e","l","l","o"," ","T","o","w","e","r">>) ]) ] ] ],
       [ table |-> "project_manufacturers",
         row |-> [ id |-> 7, created_at |-> 1, division_code |-> << >>,
                   text |-> [ manufacturer_name |-> <<"A","c","m","e"," ","s","t","e","e","l">> ],
                   other |-> NoColumns ] ],
       [ table |-> "project_attributes",
         row |-> [ id |-> 8, created_at |-> 1, division_code |-> << >>,
                   text |-> [ attribute_name |-> <<"F","i","r","e"," ","a","t","t","r","i","b","u","t","e">> ],
                   other |-> [ is_mandatory |-> Bool(FALSE), standard_values |-> Null ] ] ] >>

RECURSIVE RowsOf(_, _, _)
\* the rows of table t among the fixtures chosen, from fixture i on
RowsOf(chosen, t, i) ==
    IF i > Len(FixtureRows) THEN << >>
    ELSE (IF i \in chosen /\ FixtureRows[i].table = t THEN << FixtureRows[i].row >> ELSE << >>)
         \o RowsOf(chosen, t, i + 1)

StoreOf(chosen) == [ t \in Tables |-> RowsOf(chosen, t, 1) ]

\* the fixtures whose rows the smaller stores are drawn from
SmallStoreFixtures == 1..5

\* a store with a row in every table
FullStore == StoreOf({2, 3, 4, 5, 6, 7, 8})

Stores ==
    { StoreOf(chosen) : chosen \in { c \in SUBSET SmallStoreFixtures : Cardinality(c) <= MaxStoreRows } }
    \cup { FullStore }


(***************************************************************************)
(* State                                                                   *)
(***************************************************************************)
VARIABLES
    variant,        \* which handler is deployed
    env,            \* process.env: the credentials configured
    store,          \* the row store's tables
    request,        \* the event of the invocation, NoValue before it arrives
    pc,             \* where the invocation stands (the await it is suspended at)
    message,        \* userMessage of performComprehensiveSearch / analyzeUserQuery
    analysis,       \* queryAnalysis, NoValue before the analysis
    results,        \* the results object performComprehensiveSearch fills
    cat,            \* index in Categories of the lookup awaited in the main pass
    projectResults, \* projectResults of performBroadSearch, once its lookup returned
    searchResults,  \* what performComprehensiveSearch returned, NoValue before
    midx,           \* index in the model list of the model being tried
    testResults,    \* the per-model diagnostics collected by the probing handlers
    response,       \* the HTTP response returned, NoValue before
    calls,          \* every external call issued so far, in order, with its outcome
    runs,           \* how many times the aggregation has been started
    firstRun,       \* what the first of two aggregations returned
    suspended       \* the local state of a second invocation while it does not
                    \* run, NoValue when there is one invocation only

vars == << variant, env, store, request, pc, message, analysis, results, cat,
           projectResults, searchResults, midx, testResults, response, calls,
           runs, firstRun, lastIndexLeft, analysed, suspended >>

handlerVars == << variant, env, request, midx, testResults, response, suspended >>

(***************************************************************************)
(* performComprehensiveSearch and performBroadSearch                       *)
(***************************************************************************)
\* the results object is shared by successive calls instead of being created
\* by each
InitialResults_Shared ==
    IF results = NoValue
    THEN [ tablesSearched |-> << >>, totalResults |-> 0, searchQueries |-> << >> ]
    ELSE results

\* the results object performComprehensiveSearch starts from
InitialResults == [ tablesSearched |-> << >>, totalResults |-> 0, searchQueries |-> << >> ]

\* the results object performBroadSearch starts from
InitialBroadResults == [ tablesSearched |-> << >>, totalResults |-> 0 ]

\* the review-log lookup depends on searchReviews alone
CategoryEnabled_ReviewsFlagOnly(k, a) ==
    CASE k = 1 -> a.searchProjects
      [] k = 2 -> a.searchItemCodes
      [] k = 3 -> a.searchUsers
      [] k = 4 -> a.searchRequests
      [] k = 5 -> a.searchManufacturers
      [] k = 6 -> a.searchAttributes
      [] k = 7 -> a.searchReviews

\* the condition under which the main pass queries category k
CategoryEnabled(k, a) ==
    CASE k = 1 -> a.searchProjects
      [] k = 2 -> a.searchItemCodes
      [] k = 3 -> a.searchUsers
      [] k = 4 -> a.searchRequests
      [] k = 5 -> a.searchManufacturers
      [] k = 6 -> a.searchAttributes
      [] k = 7 -> a.searchReviews \/ a.searchStatus

\* the first category from index from on that the main pass queries, 0 if none
NextEnabled(a, from) ==
    LET ks == { k \in from..Len(Categories) : CategoryEnabled(k, a) }
    IN  IF ks = {} THEN 0 ELSE SetMin(ks)

\* what search function k returns for the rows data
ResultSet(k, data, a) ==
    IF k \in {1, 2}
    THEN [ results |-> data, searchType |-> Categories[k].key,
           searchTerms |-> a.materials \o a.searchTerms, total |-> Len(data) ]
    ELSE [ results |-> data, searchType |-> Categories[k].key, total |-> Len(data) ]

\* the set is recorded without the test for rows
AddResultSet_AlwaysRecords(res, k, set) ==
    [ SetProp(res, Categories[k].key, set) EXCEPT
        !.tablesSearched = Append(@, Categories[k].table),
        !.totalResults = @ + Len(set.results) ]

\* if (set.results.length > 0) { res[key] = set; res.tablesSearched.push(table);
\*                               res.totalResults += set.results.length }
AddResultSet(res, k, set) ==
    IF Len(set.results) > 0
    THEN [ SetProp(res, Categories[k].key, set) EXCEPT
             !.tablesSearched = Append(@, Categories[k].table),
             !.totalResults = @ + Len(set.results) ]
    ELSE res

\* the tail of performComprehensiveSearch's try block: searchQuery and
\* queryAnalysis are set and results is returned
FinishSearch(res, msg, a) == SetProp(SetProp(res, "searchQuery", msg), "queryAnalysis", a)

\* the catch block attaches the error to the results collected so far
ErrorResult_KeepsPartial(k, msg) ==
    SetProp(SetProp(results, "error", [ failed |-> Categories[k].key ]), "searchQuery", msg)

\* the value performComprehensiveSearch's catch block returns when the
\* lookup of category k threw
ErrorResult(k, msg) ==
    [ error |-> [ failed |-> Categories[k].key ],
      searchQuery |-> msg,
      tablesSearched |-> << >>,
      totalResults |-> 0 ]

\* the record of one call to the row store: the aggregation (run) and the
\* pass (main or broad) that issued it, the query, and whether it returned
StoreCall(phase, k, a, ok) ==
    [ api |-> "store", run |-> runs, phase |-> phase, table |-> Categories[k].table,
      query |-> CategoryQuery(k, a), ok |-> ok ]

\* the broad search only when no category was enabled at all
NeedsBroadSearch_NothingEnabled(res, a) == res.totalResults = 0 /\ NextEnabled(a, 1) = 0

\* if (results.totalResults === 0): the broad search is needed
NeedsBroadSearch(res, a) == res.totalResults = 0

\* performComprehensiveSearch(supabase, msg) from its entry to its first await
BeginSearch(msg) ==
    /\ message' = msg
    /\ analysis' = analyzeUserQuery(msg)
    /\ lastIndexLeft' = LastIndexAfter(msg)
    /\ analysed' = Append(analysed, [ message |-> msg, analysis |-> analysis' ])
    /\ results' = InitialResults
    /\ projectResults' = NoValue
    /\ runs' = runs + 1
    /\ LET k == NextEnabled(analysis', 1)
       IN  IF k # 0
           THEN pc' = "lookup" /\ cat' = k /\ searchResults' = NoValue
           ELSE IF NeedsBroadSearch(InitialResults, analysis')
           THEN pc' = "broadProjects" /\ cat' = 0 /\ searchResults' = NoValue
           ELSE /\ pc' = "searched"
                /\ cat' = 0
                /\ searchResults' = FinishSearch(InitialResults, msg, analysis')

\* the awaited lookup of main-pass category cat returns (ok) or throws
Lookup(ok) ==
    /\ pc = "lookup"
    /\ calls' = Append(calls, StoreCall("main", cat, analysis, ok))
    /\ IF ~ok
       THEN /\ searchResults' = ErrorResult(cat, message)
            /\ pc' = "searched"
            /\ UNCHANGED << results, cat >>
       ELSE LET set  == ResultSet(cat, StoreSelect(store, CategoryQuery(cat, analysis)), analysis)
                res  == AddResultSet(results, cat, set)
                next == NextEnabled(analysis, cat + 1)
            IN  /\ results' = res
                /\ IF next # 0
                   THEN pc' = "lookup" /\ cat' = next /\ UNCHANGED searchResults
                   ELSE IF NeedsBroadSearch(res, analysis)
                   THEN pc' = "broadProjects" /\ cat' = 0 /\ UNCHANGED searchResults
                   ELSE /\ pc' = "searched"
                        /\ cat' = 0
                        /\ searchResults' = FinishSearch(res, message, analysis)
    /\ UNCHANGED << store, message, analysis, projectResults, runs, firstRun,
                    lastIndexLeft, analysed >>
    /\ UNCHANGED handlerVars

\* performBroadSearch: the awaited searchProjects returns or throws; a throw
\* is caught inside performBroadSearch, which returns its empty results
BroadProjects(ok) ==
    /\ pc = "broadProjects"
    /\ calls' = Append(calls, StoreCall("broad", 1, analysis, ok))
    /\ IF ~ok
       THEN /\ searchResults' = FinishSearch(ObjectAssign(results, InitialBroadResults),
                                             message, analysis)
            /\ pc' = "searched"
            /\ UNCHANGED projectResults
       ELSE /\ projectResults' = ResultSet(1, StoreSelect(store, ProjectsQuery(analysis)), analysis)
            /\ pc' = "broadItems"
            /\ UNCHANGED searchResults
    /\ UNCHANGED << store, message, analysis, results, cat, runs, firstRun,
                    lastIndexLeft, analysed >>
    /\ UNCHANGED handlerVars

\* the project rows found before the item-code lookup threw are kept
BroadItems_KeepsProjects(ok) ==
    /\ pc = "broadItems"
    /\ calls' = Append(calls, StoreCall("broad", 2, analysis, ok))
    /\ LET itemResults == ResultSet(2, StoreSelect(store, ItemCodesQuery(analysis)), analysis)
           broad == IF ok
                    THEN AddResultSet(AddResultSet(InitialBroadResults, 1, projectResults),
                                      2, itemResults)
                    ELSE AddResultSet(InitialBroadResults, 1, projectResults)
       IN  searchResults' = FinishSearch(ObjectAssign(results, broad), message, analysis)
    /\ pc' = "searched"
    /\ UNCHANGED << store, message, analysis, results, cat, projectResults, runs, firstRun,
                    lastIndexLeft, analysed >>
    /\ UNCHANGED handlerVars

\* performBroadSearch: the awaited searchItemCodes returns or throws; then
\* the non-empty sets are recorded and Object.assign(results, broadResults)
BroadItems(ok) ==
    /\ pc = "broadItems"
    /\ calls' = Append(calls, StoreCall("broad", 2, analysis, ok))
    /\ LET itemResults == ResultSet(2, StoreSelect(store, ItemCodesQuery(analysis)), analysis)
           broad == IF ok
                    THEN AddResultSet(AddResultSet(InitialBroadResults, 1, projectResults),
                                      2, itemResults)
                    ELSE InitialBroadResults
       IN  searchResults' = FinishSearch(ObjectAssign(results, broad), message, analysis)
    /\ pc' = "searched"
    /\ UNCHANGED << store, message, analysis, results, cat, projectResults, runs, firstRun,
                    lastIndexLeft, analysed >>
    /\ UNCHANGED handlerVars

(***************************************************************************)
(* The aggregation on its own, run twice against the same store            *)
(***************************************************************************)
\* the messages the aggregation and the handlers are run with
\* a message that enables every category
EveryCategory == <<"s","t","e","e","l",","," ","u","s","e","r",","," ","r","e","v","i","e","w",","," ","m","a","n","u","f","a","c","t","u","r","e","r",","," ","a","t","t","r","i","b","u","t","e",","," ","r","e","q","u","e","s","t">>

\* a message with four search terms and no material
CodeUserTowerHello == <<"c","o","d","e",","," ","u","s","e","r",","," ","t","o","w","e","r",","," ","h","e","l","l","o">>

\* a material and a CSI code that no project row has together
Upvc03 == <<"U","P","V","C"," ","0","3">>

\* two status keywords, no request keyword
PendingDraftUser == <<"p","e","n","d","i","n","g"," ","d","r","a","f","t"," ","u","s","e","r">>

SearchMessages ==
    { FindUpvcPipeProjects,
      EveryCategory,
      ShowMePendingApprovals,
      <<"h","e","l","l","o"," ","t","o","w","e","r">>,
      CodeUserTowerHello,
      PendingDraftUser,
      Upvc03,
      <<"S","t","e","e","l",","," ","c","o","d","e"," ","0","3"," ","r","e","v","i","e","w"," ","b","y"," ","u","s","e","r">>,
      <<"m","a","n","u","f","a","c","t","u","r","e","r"," ","a","t","t","r","i","b","u","t","e"," ","r","e","q","u","e","s","t">> }

InitSearch ==
    /\ variant = "comprehensive"
    /\ env = NoValue
    /\ store \in Stores
    /\ request = NoValue
    /\ pc = "idle"
    /\ message = << >>
    /\ analysis = NoValue
    /\ results = NoValue
    /\ cat = 0
    /\ projectResults = NoValue
    /\ searchResults = NoValue
    /\ midx = 0
    /\ testResults = << >>
    /\ response = NoValue
    /\ calls = << >>
    /\ runs = 0
    /\ firstRun = NoValue
    /\ lastIndexLeft = NoMatchPositions
    /\ analysed = << >>
    /\ suspended = NoValue

\* performComprehensiveSearch is called with a message
StartSearch ==
    /\ pc = "idle"
    /\ \E msg \in SearchMessages : BeginSearch(msg)
    /\ UNCHANGED << store, calls, firstRun >>
    /\ UNCHANGED handlerVars

\* performComprehensiveSearch is called a second time with the same message
SearchAgain ==
    /\ pc = "searched"
    /\ runs = 1
    /\ firstRun' = searchResults
    /\ BeginSearch(message)
    /\ UNCHANGED << store, calls >>
    /\ UNCHANGED handlerVars

NextSearch ==
    \/ StartSearch
    \/ \E ok \in BOOLEAN : Lookup(ok)
    \/ \E ok \in BOOLEAN : BroadProjects(ok)
    \/ \E ok \in BOOLEAN : BroadItems(ok)
    \/ SearchAgain

SpecSearch == InitSearch /\ [][NextSearch]_vars

(***************************************************************************)
(* The analyzer on its own                                                 *)
(***************************************************************************)
InitAnalyze ==
    /\ variant = "comprehensive"
    /\ env = NoValue
    /\ store = StoreOf({})
    /\ request = NoValue
    /\ pc = "idle"
    /\ message \in Messages
    /\ analysis = NoValue
    /\ results = NoValue
    /\ cat = 0
    /\ projectResults = NoValue
    /\ searchResults = NoValue
    /\ midx = 0
    /\ testResults = << >>
    /\ response = NoValue
    /\ calls = << >>
    /\ runs = 0
    /\ firstRun = NoValue
    /\ lastIndexLeft = NoMatchPositions
    /\ analysed = << >>
    /\ suspended = NoValue

\* analyzeUserQuery(message) is called
Analyze ==
    /\ analysis = NoValue
    /\ analysis' = analyzeUserQuery(message)
    /\ lastIndexLeft' = LastIndexAfter(message)
    /\ analysed' = Append(analysed, [ message |-> message, analysis |-> analysis' ])
    /\ UNCHANGED << suspended, variant, env, store, request, pc, message, results, cat,
                    projectResults, searchResults, midx, testResults, response,
                    calls, runs, firstRun >>

NextAnalyze == Analyze

SpecAnalyze == InitAnalyze /\ [][NextAnalyze]_vars

(***************************************************************************)
(* The analyzer called again and again, as successive requests do          *)
(***************************************************************************)
\* the most calls of analyzeUserQuery in a row
MaxAnalyses == 3

\* the messages analysed in turn
ReanalysedMessages ==
    { ShowMePendingApprovals,
      EveryCategory,
      <<"r","e","c","e","n","t"," ","s","t","a","t","u","s">>,
      <<"h","e","l","l","o">>,
      <<"u","s","e","r"," ","r","e","q","u","e","s","t"," ","f","o","r"," ","s","t","e","e","l"," ","p","i","p","e">> }

InitReanalyze ==
    /\ variant = "comprehensive"
    /\ env = NoValue
    /\ store = StoreOf({})
    /\ request = NoValue
    /\ pc = "idle"
    /\ message = << >>
    /\ analysis = NoValue
    /\ results = NoValue
    /\ cat = 0
    /\ projectResults = NoValue
    /\ searchResults = NoValue
    /\ midx = 0
    /\ testResults = << >>
    /\ response = NoValue
    /\ calls = << >>
    /\ runs = 0
    /\ firstRun = NoValue
    /\ lastIndexLeft = NoMatchPositions
    /\ analysed = << >>
    /\ suspended = NoValue

\* analyzeUserQuery(msg) is called, whatever was analysed before
AnalyzeAnother(msg) ==
    /\ Len(analysed) < MaxAnalyses
    /\ message' = msg
    /\ analysis' = analyzeUserQuery(msg)
    /\ lastIndexLeft' = LastIndexAfter(msg)
    /\ analysed' = Append(analysed, [ message |-> msg, analysis |-> analysis' ])
    /\ UNCHANGED << suspended, variant, env, store, request, pc, results, cat,
                    projectResults, searchResults, midx, testResults, response,
                    calls, runs, firstRun >>

NextReanalyze == \E msg \in ReanalysedMessages : AnalyzeAnother(msg)

SpecReanalyze == InitReanalyze /\ [][NextReanalyze]_vars


(***************************************************************************)
(* buildComprehensivePrompt.  The prompt is the sequence of its parts: the *)
(* header, then the no-results sentence or the blocks of the populated     *)
(* categories (a block header and one part per row, holding the row's      *)
(* lines as the template literals render them), then the requirements.     *)
(***************************************************************************)
DigitChars == << "0", "1", "2", "3", "4", "5", "6", "7", "8", "9" >>

RECURSIVE NumToString(_)
\* the decimal digits of a natural number
NumToString(n) ==
    IF n < 10 THEN << DigitChars[n + 1] >>
    ELSE NumToString(n \div 10) \o << DigitChars[(n % 10) + 1] >>

\* what `${value}` puts into a template literal
StringOf(val) ==
    CASE val.t = "string"    -> val.v
      [] val.t = "number"    -> NumToString(val.v)
      [] val.t = "boolean"   -> IF val.v THEN <<"t","r","u","e">> ELSE <<"f","a","l","s","e">>
      [] val.t = "null"      -> <<"n","u","l","l">>
      [] val.t = "undefined" -> <<"u","n","d","e","f","i","n","e","d">>
      [] val.t = "object"    -> <<"[","o","b","j","e","c","t"," ","O","b","j","e","c","t","]">>

\* the value counts as true in a condition
Truthy(val) ==
    CASE val.t = "string"  -> val.v # << >>
      [] val.t = "number"  -> val.v # 0
      [] val.t = "boolean" -> val.v
      [] val.t = "object"  -> TRUE
      [] OTHER             -> FALSE

\* JSON.stringify of a column value inside a template literal
JsonStringify(val) ==
    CASE val.t = "string"    -> << "\"" >> \o val.v \o << "\"" >>
      [] val.t = "undefined" -> <<"u","n","d","e","f","i","n","e","d">>
      [] val.t = "object"    -> << "{", "}" >>
      [] OTHER               -> StringOf(val)

\* row.name: the value of a column of a row the store returned; a column
\* without a value is null
Column(row, name) ==
    CASE name = "id"            -> Num(row.id)
      [] name = "created_at"    -> Num(row.created_at)
      [] name = "division_code" -> IF row.division_code = << >> THEN Null ELSE Str(row.division_code)
      [] name \in DOMAIN row.text  -> Str(row.text[name])
      [] name \in DOMAIN row.other -> row.other[name]
      [] OTHER -> Null

\* row.relation?.field
JoinedColumn(row, relation, field) ==
    LET rel == Column(row, relation)
    IN  IF rel.t = "object" /\ field \in DOMAIN rel.v THEN rel.v[field] ELSE Undefined

\* the lines of one row of the projects block: label and the parts of the
\* template literal after it
projectLines ==
    << [ label |-> "Project ID",
         parts |-> << [ kind |-> "value", field |-> "id" ] >> ],
       [ label |-> "Project Name",
         parts |-> << [ kind |-> "value", field |-> "project_name" ] >> ],
       [ label |-> "Division",
         parts |-> << [ kind |-> "value", field |-> "division_code" ],
                    [ kind |-> "lit", text |-> <<" ","-"," ">> ],
                    [ kind |-> "value", field |-> "division_description" ] >> ],
       [ label |-> "Section",
         parts |-> << [ kind |-> "value", field |-> "section_code" ],
                    [ kind |-> "lit", text |-> <<" ","-"," ">> ],
                    [ kind |-> "value", field |-> "section_description" ] >> ],
       [ label |-> "Detailed Section",
         parts |-> << [ kind |-> "value", field |-> "detailed_section_code" ],
                    [ kind |-> "lit", text |-> <<" ","-"," ">> ],
                    [ kind |-> "value", field |-> "detailed_section_description" ] >> ],
       [ label |-> "Item Code",
         parts |-> << [ kind |-> "value", field |-> "item_code" ] >> ],
       [ label |-> "Item Description",
         parts |-> << [ kind |-> "value", field |-> "item_description" ] >> ],
       [ label |-> "Status",
         parts |-> << [ kind |-> "value", field |-> "status" ] >> ],
       [ label |-> "Created",
         parts |-> << [ kind |-> "value", field |-> "created_at" ] >> ],
       [ label |-> "Created By",
         parts |-> << [ kind |-> "join", relation |-> "users", field |-> "username", default |-> <<"U","n","k","n","o","w","n">> ] >> ] >>

\* the lines of one row of the itemCodes block: label and the parts of the
\* template literal after it
itemCodeLines ==
    << [ label |-> "Item Code",
         parts |-> << [ kind |-> "value", field |-> "item_code" ] >> ],
       [ label |-> "Description 1",
         parts |-> << [ kind |-> "value", field |-> "description1" ] >> ],
       [ label |-> "Description 2",
         parts |-> << [ kind |-> "or", field |-> "description2", default |-> <<"N","/","A">> ] >> ],
       [ label |-> "Price",
         parts |-> << [ kind |-> "price" ] >> ],
       [ label |-> "Manufacturer",
         parts |-> << [ kind |-> "or", field |-> "manufacturer", default |-> <<"N","o","t"," ","s","p","e","c","i","f","i","e","d">> ] >> ],
       [ label |-> "UOM",
         parts |-> << [ kind |-> "or", field |-> "uom", default |-> <<"N","o","t"," ","s","p","e","c","i","f","i","e","d">> ] >> ],
       [ label |-> "Status",
         parts |-> << [ kind |-> "value", field |-> "status" ] >> ],
       [ label |-> "ERP Integrated",
         parts |-> << [ kind |-> "yesNo", field |-> "erp_integrated" ] >> ],
       [ label |-> "Project",
         parts |-> << [ kind |-> "join", relation |-> "classification_projects", field |-> "project_name", default |-> <<"U","n","k","n","o","w","n">> ] >> ],
       [ label |-> "Created By",
         parts |-> << [ kind |-> "join", relation |-> "users", field |-> "username", default |-> <<"U","n","k","n","o","w","n">> ] >> ],
       [ label |-> "Created",
         parts |-> << [ kind |-> "value", field |-> "created_at" ] >> ] >>

\* the lines of one row of the users block: label and the parts of the
\* template literal after it
userLines ==
    << [ label |-> "Username",
         parts |-> << [ kind |-> "value", field |-> "username" ] >> ],
       [ label |-> "Email",
         parts |-> << [ kind |-> "value", field |-> "email" ] >> ],
       [ label |-> "Role",
         parts |-> << [ kind |-> "value", field |-> "role" ] >> ],
       [ label |-> "Status",
         parts |-> << [ kind |-> "value", field |-> "status" ] >> ],
       [ label |-> "Created",
         parts |-> << [ kind |-> "value", field |-> "created_at" ] >> ] >>

\* the lines of one row of the requests block: label and the parts of the
\* template literal after it
requestLines ==
    << [ label |-> "Attribute",
         parts |-> << [ kind |-> "value", field |-> "attribute_name" ] >> ],
       [ label |-> "New Value",
         parts |-> << [ kind |-> "value", field |-> "new_value" ] >> ],
       [ label |-> "Reason",
         parts |-> << [ kind |-> "or", field |-> "reason", default |-> <<"N","o","t"," ","s","p","e","c","i","f","i","e","d">> ] >> ],
       [ label |-> "Status",
         parts |-> << [ kind |-> "value", field |-> "status" ] >> ],
       [ label |-> "Project",
         parts |-> << [ kind |-> "join", relation |-> "classification_projects", field |-> "project_name", default |-> <<"U","n","k","n","o","w","n">> ] >> ],
       [ label |-> "Created By",
         parts |-> << [ kind |-> "join", relation |-> "users", field |-> "username", default |-> <<"U","n","k","n","o","w","n">> ] >> ],
       [ label |-> "Created",
         parts |-> << [ kind |-> "value", field |-> "created_at" ] >> ] >>

\* the lines of one row of the manufacturers block: label and the parts of the
\* template literal after it
manufacturerLines ==
    << [ label |-> "Name",
         parts |-> << [ kind |-> "value", field |-> "manufacturer_name" ] >> ],
       [ label |-> "Project",
         parts |-> << [ kind |-> "join", relation |-> "classification_projects", field |-> "project_name", default |-> <<"U","n","k","n","o","w","n">> ] >> ],
       [ label |-> "Added By",
         parts |-> << [ kind |-> "join", relation |-> "users", field |-> "username", default |-> <<"U","n","k","n","o","w","n">> ] >> ],
       [ label |-> "Added",
         parts |-> << [ kind |-> "value", field |-> "created_at" ] >> ] >>

\* the lines of one row of the attributes block: label and the parts of the
\* template literal after it
attributeLines ==
    << [ label |-> "Name",
         parts |-> << [ kind |-> "value", field |-> "attribute_name" ] >> ],
       [ label |-> "Mandatory",
         parts |-> << [ kind |-> "yesNo", field |-> "is_mandatory" ] >> ],
       [ label |-> "Standard Values",
         parts |-> << [ kind |-> "json", field |-> "standard_values" ] >> ],
       [ label |-> "Project",
         parts |-> << [ kind |-> "join", relation |-> "classification_projects", field |-> "project_name", default |-> <<"U","n","k","n","o","w","n">> ] >> ],
       [ label |-> "Created",
         parts |-> << [ kind |-> "value", field |-> "created_at" ] >> ] >>

\* the lines of one row of the reviews block: label and the parts of the
\* template literal after it
reviewLines ==
    << [ label |-> "Action",
         parts |-> << [ kind |-> "value", field |-> "action" ] >> ],
       [ label |-> "Comments",
         parts |-> << [ kind |-> "or", field |-> "comments", default |-> <<"N","o"," ","c","o","m","m","e","n","t","s">> ] >> ],
       [ label |-> "Project",
         parts |-> << [ kind |-> "join", relation |-> "classification_projects", field |-> "project_name", default |-> <<"U","n","k","n","o","w","n">> ] >> ],
       [ label |-> "Reviewer",
         parts |-> << [ kind |-> "join", relation |-> "users", field |-> "username", default |-> <<"U","n","k","n","o","w","n">> ] >> ],
       [ label |-> "Date",
         parts |-> << [ kind |-> "value", field |-> "created_at" ] >> ] >>

\* the lines of the rows of category k (an index of Categories)
CategoryLines(k) ==
    CASE k = 1 -> projectLines
      [] k = 2 -> itemCodeLines
      [] k = 3 -> userLines
      [] k = 4 -> requestLines
      [] k = 5 -> manufacturerLines
      [] k = 6 -> attributeLines
      [] k = 7 -> reviewLines

\* what one ${...} of a line, or the text between two, renders to
RenderPart(row, part) ==
    CASE part.kind = "value" -> StringOf(Column(row, part.field))
      [] part.kind = "lit"   -> part.text
      [] part.kind = "or"    ->
            IF Truthy(Column(row, part.field)) THEN StringOf(Column(row, part.field))
            ELSE part.default
      [] part.kind = "price" ->
            IF Truthy(Column(row, "unit_price"))
            THEN StringOf(Column(row, "unit_price")) \o << " " >>
                     \o StringOf(Column(row, "currency_code"))
            ELSE <<"N","o","t"," ","s","e","t">>
      [] part.kind = "yesNo" -> IF Truthy(Column(row, part.field)) THEN <<"Y","e","s">> ELSE <<"N","o">>
      [] part.kind = "json"  -> JsonStringify(Column(row, part.field))
      [] part.kind = "join"  ->
            IF Truthy(JoinedColumn(row, part.relation, part.field))
            THEN StringOf(JoinedColumn(row, part.relation, part.field))
            ELSE part.default

RECURSIVE RenderParts(_, _)
RenderParts(row, parts) ==
    IF parts = << >> THEN << >>
    ELSE RenderPart(row, Head(parts)) \o RenderParts(row, Tail(parts))

\* '- label: text' for every line of the row's template
RenderRow(k, row) ==
    [ n \in 1..Len(CategoryLines(k)) |->
        [ label |-> CategoryLines(k)[n].label,
          text  |-> RenderParts(row, CategoryLines(k)[n].parts) ] ]

\* the block of category k: its header with the count, then its rows
Block(k, set) ==
    << [ kind |-> "block", category |-> Categories[k].key, found |-> set.total ] >>
    \o [ n \in 1..Len(set.results) |->
           [ kind |-> "row", category |-> Categories[k].key, index |-> n,
             lines |-> RenderRow(k, set.results[n]) ] ]

RECURSIVE Blocks_LatestFirst(_, _)
\* the blocks are put in front of the prompt built so far, so that the
\* category visited last comes first
Blocks_LatestFirst(sr, k) ==
    IF k > Len(Categories) THEN << >>
    ELSE Blocks_LatestFirst(sr, k + 1)
         \o (IF Has(sr, Categories[k].key) THEN Block(k, sr[Categories[k].key]) ELSE << >>)

RECURSIVE Blocks(_, _)
\* the blocks of the categories from k on that searchResults holds
Blocks(sr, k) ==
    IF k > Len(Categories) THEN << >>
    ELSE (IF Has(sr, Categories[k].key) THEN Block(k, sr[Categories[k].key]) ELSE << >>)
         \o Blocks(sr, k + 1)

\* what a property access on undefined ends in
TypeError == [ throws |-> "TypeError" ]

\* the blocks are added whatever totalResults is: the no-results sentence
\* is never written
buildComprehensivePrompt_NoEmptyBranch(userMessage, sr) ==
    IF ~Has(sr, "tablesSearched") THEN TypeError
    ELSE << [ kind |-> "header", userMessage |-> userMessage,
              tablesSearched |-> sr.tablesSearched, totalResults |-> sr.totalResults,
              queryAnalysis |-> IF Has(sr, "queryAnalysis") THEN sr.queryAnalysis ELSE NoValue ] >>
         \o Blocks(sr, 1)
         \o << [ kind |-> "requirements" ] >>

\* buildComprehensivePrompt: the header with the tables searched, the total
\* and the analysis; the no-results sentence when the total is 0 and the
\* blocks otherwise; the response requirements.  Reading tablesSearched
\* of a value without one throws.
buildComprehensivePrompt(userMessage, sr) ==
    IF ~Has(sr, "tablesSearched") THEN TypeError
    ELSE << [ kind |-> "header", userMessage |-> userMessage,
              tablesSearched |-> sr.tablesSearched, totalResults |-> sr.totalResults,
              queryAnalysis |-> IF Has(sr, "queryAnalysis") THEN sr.queryAnalysis ELSE NoValue ] >>
         \o (IF sr.totalResults = 0 THEN << [ kind |-> "noResults" ] >> ELSE Blocks(sr, 1))
         \o << [ kind |-> "requirements" ] >>

(***************************************************************************)
(* The handlers                                                            *)
(***************************************************************************)
\* the handlers of the repository: in claude-ai-with-database.js the
\* comprehensive, the simple and the enhanced single-model handler; in
\* part_000 the auto-detect and the diagnostic single-model handler; in
\* part_001 the model diagnostic handler
Variants == { "comprehensive", "simple", "enhanced", "autodetect", "diagnostic", "modeldiag" }

\* the handlers that walk a model fallback list
ListVariants == { "comprehensive", "simple", "autodetect", "modeldiag" }

\* the handlers that probe a model before the full request
ProbingVariants == { "autodetect", "modeldiag" }

\* the most entries of a fallback list the model tries
MaxModels == 3

comprehensiveModels ==
    << "claude-3-5-sonnet-20241022", "claude-3-5-sonnet-20240620", "claude-3-haiku-20240307" >>

simpleModels ==
    << "claude-3-5-sonnet-20241022", "claude-3-5-sonnet-20240620", "claude-3-haiku-20240307" >>

autodetectModels ==
    << "claude-3-5-sonnet-20241022", "claude-3-5-sonnet-20240620", "claude-3-haiku-20240307",
       "claude-3-sonnet-20240229", "claude-3-opus-20240229" >>

modeldiagModels ==
    << "claude-3-5-sonnet-20241022", "claude-3-5-sonnet-20240620", "claude-3-5-haiku-20241022",
       "claude-3-sonnet-20240229", "claude-3-opus-20240229", "claude-3-haiku-20240307",
       "claude-3-5-sonnet", "claude-3-sonnet", "claude-3-haiku", "claude-3-opus",
       "claude-2.1", "claude-2.0", "claude-instant-1.2", "claude-instant-1.1",
       "claude-instant-1", "claude-2",
       "claude-3-5-sonnet-latest", "claude-3-sonnet-latest", "claude-3-haiku-latest" >>

\* the fallback list of handler v (its first MaxModels entries)
Models(v) ==
    SliceFirst(CASE v = "comprehensive" -> comprehensiveModels
                 [] v = "simple"        -> simpleModels
                 [] v = "autodetect"    -> autodetectModels
                 [] v = "modeldiag"     -> modeldiagModels,
               MaxModels)

\* the one model of a single-model handler
SingleModel(v) ==
    CASE v = "enhanced"   -> "claude-3-sonnet-20240229"
      [] v = "diagnostic" -> "claude-3-5-sonnet-20241022"

\* String.prototype.startsWith
startsWith(s, prefix) == LitAt(s, 1, prefix, FALSE)

apiKeyPrefix == <<"s","k","-","a","n","t","-","a","p","i","0","3","-">>

userMessageMarker == <<"U","S","E","R"," ","M","E","S","S","A","G","E",":"," ","\"">>

RECURSIVE FirstQuote(_, _)
\* the first position >= p of s that holds a double quote, 0 if none
FirstQuote(s, p) ==
    IF p > Len(s) THEN 0 ELSE IF s[p] = "\"" THEN p ELSE FirstQuote(s, p + 1)

RECURSIVE ExtractFrom(_, _)
\* the group of the leftmost match of /USER MESSAGE: "([^"]+)"/ that starts
\* at p or later, << >> when there is no match
ExtractFrom(s, p) ==
    IF p > Len(s) THEN << >>
    ELSE LET b == p + Len(userMessageMarker)
             q == FirstQuote(s, b)
         IN  IF LitAt(s, p, userMessageMarker, FALSE) /\ q > b
             THEN SubSeq(s, b, q - 1)
             ELSE ExtractFrom(s, p + 1)

\* extractUserMessage
extractUserMessage(prompt) ==
    IF ExtractFrom(prompt, 1) # << >> THEN ExtractFrom(prompt, 1) ELSE prompt

\* the value of a body field: the empty string stands for an absent field
\* (both are falsy, which is all the handlers test)
Field(body, name) == IF Has(body.fields, name) THEN body.fields[name] ELSE << >>

\* actualUserMessage of the comprehensive handler
ActualUserMessage(body) ==
    IF Field(body, "userMessage") # << >>
    THEN Field(body, "userMessage")
    ELSE extractUserMessage(Field(body, "prompt"))

EmptyBody == [ empty |-> TRUE ]

\* the headers of the response to OPTIONS
PreflightHeaders ==
    [ AccessControlAllowOrigin  |-> "*",
      AccessControlAllowHeaders |-> "Content-Type",
      AccessControlAllowMethods |-> "POST, OPTIONS" ]

\* the response to OPTIONS
PreflightResponse == [ statusCode |-> 200, headers |-> PreflightHeaders, body |-> EmptyBody ]

\* the response of handler v to a method other than OPTIONS and POST
MethodNotAllowed(v) ==
    [ statusCode |-> 405,
      headers |-> [ AccessControlAllowOrigin |-> "*" ],
      body |-> [ error |-> CASE v = "enhanced" -> "Method not allowed. Use POST for AI requests."
                             [] v \in { "autodetect", "diagnostic" } -> "Method not allowed. Use POST."
                             [] OTHER -> "Method not allowed",
                 success |-> FALSE ] ]

\* the outer catch block is missing and the exception leaves the handler:
\* the platform answers for it
InternalError_Uncaught(v) ==
    [ statusCode |-> 502, body |-> [ errorType |-> "Error", errorMessage |-> "uncaught" ] ]

\* what the outer catch block of handler v returns
InternalError(v) ==
    [ statusCode |-> 500,
      body |-> [ error |-> CASE v = "enhanced" -> "Internal server error in Claude AI function"
                             [] v \in { "autodetect", "diagnostic" } -> "Function execution error"
                             [] OTHER -> "Internal function error",
                 success |-> FALSE, fallback |-> TRUE ] ]

\* the response of handler v to a body without the input it requires
PromptRequired(v) ==
    [ statusCode |-> 400,
      body |-> [ error |-> CASE v = "comprehensive" -> "Prompt or userMessage required"
                             [] v = "enhanced" -> "Prompt is required for AI processing"
                             [] v \in { "autodetect", "diagnostic" } -> "Prompt is required"
                             [] OTHER -> "Prompt required",
                 success |-> FALSE ] ]

\* the response of handler v when ANTHROPIC_API_KEY is not set
ApiKeyMissing(v) ==
    [ statusCode |-> IF v = "enhanced" THEN 500 ELSE 200,
      body |-> [ error |-> CASE v = "enhanced" -> "AI service not configured on server"
                             [] v \in { "autodetect", "diagnostic" } -> "API key not configured"
                             [] v = "modeldiag" ->
                                  "ANTHROPIC_API_KEY not configured - Set this in Netlify environment variables"
                             [] OTHER -> "ANTHROPIC_API_KEY not configured",
                 success |-> FALSE, fallback |-> TRUE ] ]

SupabaseMissing ==
    [ statusCode |-> 200,
      body |-> [ error |-> "Supabase configuration missing", success |-> FALSE,
                 fallback |-> TRUE ] ]

InvalidKeyFormat ==
    [ statusCode |-> 200,
      body |-> [ error |-> "Invalid API key format", success |-> FALSE, fallback |-> TRUE ] ]

\* the request lacks what handler v requires of the body
MissingInput(v, body) ==
    IF v = "comprehensive"
    THEN Field(body, "prompt") = << >> /\ Field(body, "userMessage") = << >>
    ELSE Field(body, "prompt") = << >>

\* the body is parsed before the method is looked at
EarlyResponse_ParsesFirst(v, req, e) ==
    IF ~req.body.parses THEN InternalError(v)
    ELSE IF req.httpMethod = "OPTIONS" THEN PreflightResponse
    ELSE IF req.httpMethod # "POST" THEN MethodNotAllowed(v)
    ELSE IF MissingInput(v, req.body) THEN PromptRequired(v)
    ELSE IF e.ANTHROPIC_API_KEY = << >> THEN ApiKeyMissing(v)
    ELSE IF v = "comprehensive" /\ (e.SUPABASE_URL = << >> \/ e.SUPABASE_ANON_KEY = << >>)
         THEN SupabaseMissing
    ELSE IF v \in { "autodetect", "diagnostic" } /\ ~startsWith(e.ANTHROPIC_API_KEY, apiKeyPrefix)
         THEN InvalidKeyFormat
    ELSE NoValue

\* the credentials are checked before the fields of the body
EarlyResponse_KeyCheckFirst(v, req, e) ==
    IF req.httpMethod = "OPTIONS" THEN PreflightResponse
    ELSE IF req.httpMethod # "POST" THEN MethodNotAllowed(v)
    ELSE IF ~req.body.parses THEN InternalError(v)
    ELSE IF e.ANTHROPIC_API_KEY = << >> THEN ApiKeyMissing(v)
    ELSE IF MissingInput(v, req.body) THEN PromptRequired(v)
    ELSE IF v = "comprehensive" /\ (e.SUPABASE_URL = << >> \/ e.SUPABASE_ANON_KEY = << >>)
         THEN SupabaseMissing
    ELSE IF v \in { "autodetect", "diagnostic" } /\ ~startsWith(e.ANTHROPIC_API_KEY, apiKeyPrefix)
         THEN InvalidKeyFormat
    ELSE NoValue

\* The response handler v returns before any external call, NoValue when
\* it goes on: the method checks, JSON.parse, the required fields and the
\* credential checks, in the order of the code.
EarlyResponse(v, req, e) ==
    IF req.httpMethod = "OPTIONS" THEN PreflightResponse
    ELSE IF req.httpMethod # "POST" THEN MethodNotAllowed(v)
    ELSE IF ~req.body.parses THEN InternalError(v)
    ELSE IF MissingInput(v, req.body) THEN PromptRequired(v)
    ELSE IF e.ANTHROPIC_API_KEY = << >> THEN ApiKeyMissing(v)
    ELSE IF v = "comprehensive" /\ (e.SUPABASE_URL = << >> \/ e.SUPABASE_ANON_KEY = << >>)
         THEN SupabaseMissing
    ELSE IF v \in { "autodetect", "diagnostic" } /\ ~startsWith(e.ANTHROPIC_API_KEY, apiKeyPrefix)
         THEN InvalidKeyFormat
    ELSE NoValue

\* the outcomes of one request to the completion API: fetch rejects; the
\* response is OK and its body has a text, has no text, or cannot be read
\* as the JSON expected; the response is not OK
ErrorStatuses == { 401 }

Replies(m, purpose) ==
    { [ kind |-> "throws" ],
      [ kind |-> "ok", text |-> [ by |-> m, purpose |-> purpose ] ],
      [ kind |-> "ok_empty" ],
      [ kind |-> "ok_unreadable" ] }
    \cup { [ kind |-> "not_ok", status |-> s ] : s \in ErrorStatuses }

LlmCall(m, purpose, reply, content) ==
    [ api |-> "llm", model |-> m, purpose |-> purpose, reply |-> reply.kind,
      content |-> content ]

\* the content of the user message built from an aggregate that has not
\* been filled yet
Content_BeforeSearch(v, purpose, body, msg, sr) ==
    CASE v = "comprehensive" -> buildComprehensivePrompt(msg, InitialResults)
      [] v = "modeldiag" /\ purpose = "probe" -> << [ kind |-> "hello" ] >>
      [] v = "autodetect" /\ purpose = "probe" ->
            << [ kind |-> "prompt", prompt |-> Field(body, "prompt") ] >>
      [] OTHER ->
            << [ kind |-> "instructions" ],
               [ kind |-> "prompt", prompt |-> Field(body, "prompt") ] >>

\* the content of the user message handler v sends to the completion API:
\* the comprehensive handler sends enhancedPrompt, built from what
\* performComprehensiveSearch returned; the model diagnostic probes with a
\* fixed greeting, the auto-detect handler with the prompt itself (the
\* prompts here are shorter than the 500 characters it cuts at); every
\* other request wraps the prompt of the body in fixed instructions
Content(v, purpose, body, msg, sr) ==
    CASE v = "comprehensive" -> buildComprehensivePrompt(msg, sr)
      [] v = "modeldiag" /\ purpose = "probe" -> << [ kind |-> "hello" ] >>
      [] v = "autodetect" /\ purpose = "probe" ->
            << [ kind |-> "prompt", prompt |-> Field(body, "prompt") ] >>
      [] OTHER ->
            << [ kind |-> "instructions" ],
               [ kind |-> "prompt", prompt |-> Field(body, "prompt") ] >>

\* the success response of handler v for the text of model m
SuccessResponse(v, m, text, sr) ==
    [ statusCode |-> 200,
      body |-> IF v = "comprehensive"
               THEN [ success |-> TRUE, response |-> text, model |-> m,
                      searchResults |-> sr, tablesSearched |-> sr.tablesSearched ]
               ELSE [ success |-> TRUE, response |-> text, model |-> m ] ]

\* the soft failure of handler v after its loop over the model list (the
\* probing handlers append a diagnosis to the error text, left out here)
NoWorkingModel(v, sr, tr) ==
    [ statusCode |-> 200,
      body |-> CASE v = "comprehensive" ->
                      [ error |-> "No working Claude models found", success |-> FALSE,
                        searchResults |-> sr, fallback |-> TRUE ]
                 [] v = "simple" ->
                      [ error |-> "No working Claude models found", success |-> FALSE,
                        fallback |-> TRUE ]
                 [] v \in ProbingVariants ->
                      [ error |-> "No working Claude models found", success |-> FALSE,
                        testResults |-> tr, testedModels |-> Models(v), fallback |-> TRUE ] ]

\* the soft failure of the single-model handler v for a reply that is not
\* OK or has no text
SingleFailure(v, reply) ==
    [ statusCode |-> 200,
      body |-> [ error |-> CASE reply.kind = "ok_empty" /\ v = "enhanced" ->
                                  "No response generated by Claude AI"
                             [] reply.kind = "ok_empty" /\ v = "diagnostic" ->
                                  "Empty response from Claude"
                             [] reply.kind = "not_ok" /\ reply.status = 401 /\ v = "enhanced" ->
                                  "Invalid API key. Check ANTHROPIC_API_KEY environment variable."
                             [] reply.kind = "not_ok" /\ reply.status = 401 /\ v = "diagnostic" ->
                                  "Invalid or expired API key"
                             [] OTHER -> "Claude API error",
                 success |-> FALSE, fallback |-> TRUE ] ]

\* the loop of handler v stops at this reply (break or return)
EndsLoop(v, reply) ==
    IF v = "comprehensive"
    THEN reply.kind \in { "ok", "ok_empty" }
    ELSE reply.kind = "ok"

\* the text the handler holds once the loop stopped at this reply
TextOf(reply) == IF reply.kind = "ok" THEN reply.text ELSE NoValue

\* the entry the probing handler v pushes to testResults for a probe reply
\* that does not lead to the full request, NoValue when it pushes nothing
ProbeDiagnostic(v, m, reply) ==
    CASE reply.kind = "throws"        -> [ model |-> m, error |-> "thrown" ]
      [] reply.kind = "ok_unreadable" -> [ model |-> m, error |-> "thrown" ]
      [] reply.kind = "not_ok"        -> [ model |-> m, status |-> reply.status ]
      [] reply.kind = "ok_empty" ->
            IF v = "modeldiag" THEN [ model |-> m, status |-> 200 ] ELSE NoValue

\* the entry pushed for a reply to the full request, NoValue when none is
FullDiagnostic(v, m, reply) ==
    IF reply.kind \in { "throws", "ok_unreadable" }
    THEN [ model |-> m, error |-> "thrown" ]
    ELSE NoValue

Push(seq, x) == IF x = NoValue THEN seq ELSE Append(seq, x)

searchVars == << store, message, analysis, results, cat, projectResults,
                 searchResults, runs, firstRun, lastIndexLeft, analysed >>

Respond(resp) == response' = resp /\ pc' = "done"

\* the handler is invoked with the event req and runs to its first await
Invoke(req) ==
    /\ pc = "idle"
    /\ request = NoValue
    /\ request' = req
    /\ LET early == EarlyResponse(variant, req, env)
       IN  IF early # NoValue
           THEN /\ Respond(early)
                /\ UNCHANGED << midx, searchVars >>
           ELSE IF variant = "comprehensive"
           THEN /\ BeginSearch(ActualUserMessage(req.body))
                /\ UNCHANGED << midx, response, store, firstRun >>
           ELSE /\ pc' = IF variant \in ListVariants THEN "model" ELSE "single"
                /\ midx' = 1
                /\ UNCHANGED << response, searchVars >>
    /\ UNCHANGED << suspended, variant, env, testResults, calls >>

\* the loop stays on entry k until the list is at its last entry
NextModelOrFail_SameModel(k, tr) ==
    IF k < Len(Models(variant))
    THEN pc' = "model" /\ midx' = k /\ UNCHANGED response
    ELSE Respond(NoWorkingModel(variant, searchResults, tr)) /\ midx' = k

\* the loop goes on to the entry after k, or ends without a working model
NextModelOrFail(k, tr) ==
    IF k < Len(Models(variant))
    THEN pc' = "model" /\ midx' = k + 1 /\ UNCHANGED response
    ELSE Respond(NoWorkingModel(variant, searchResults, tr)) /\ midx' = k

\* comprehensive and simple handler: the awaited request for the model at
\* hand is answered
TryModel ==
    /\ variant \in { "comprehensive", "simple" }
    /\ request # NoValue
    /\ pc = IF variant = "comprehensive" /\ midx = 0 THEN "searched" ELSE "model"
    /\ LET k == IF midx = 0 THEN 1 ELSE midx
           m == Models(variant)[k]
           content == Content(variant, "completion", request.body, message, searchResults)
       IN  IF content = TypeError
           THEN Respond(InternalError(variant)) /\ UNCHANGED << midx, calls >>
           ELSE \E reply \in Replies(m, "completion") :
                  /\ calls' = Append(calls, LlmCall(m, "completion", reply, content))
                  /\ IF EndsLoop(variant, reply)
                     THEN /\ midx' = k
                          /\ IF TextOf(reply) # NoValue
                             THEN Respond(SuccessResponse(variant, m, TextOf(reply), searchResults))
                             ELSE Respond(NoWorkingModel(variant, searchResults, testResults))
                     ELSE NextModelOrFail(k, testResults)
    /\ UNCHANGED << suspended, variant, env, request, testResults, searchVars >>

\* probing handlers: the awaited test request for the model at hand is
\* answered
Probe ==
    /\ variant \in ProbingVariants
    /\ pc = "model"
    /\ LET m == Models(variant)[midx]
       IN  \E reply \in Replies(m, "probe") :
             /\ calls' = Append(calls, LlmCall(m, "probe", reply,
                                Content(variant, "probe", request.body, message, searchResults)))
             /\ IF reply.kind = "ok"
                THEN pc' = "full" /\ UNCHANGED << midx, response, testResults >>
                ELSE LET tr == Push(testResults, ProbeDiagnostic(variant, m, reply))
                     IN  testResults' = tr /\ NextModelOrFail(midx, tr)
    /\ UNCHANGED << suspended, variant, env, request, searchVars >>

\* probing handlers: the awaited full request for the working model is
\* answered
Full ==
    /\ variant \in ProbingVariants
    /\ pc = "full"
    /\ LET m == Models(variant)[midx]
       IN  \E reply \in Replies(m, "full") :
             /\ calls' = Append(calls, LlmCall(m, "full", reply,
                                Content(variant, "full", request.body, message, searchResults)))
             /\ IF reply.kind \in { "ok", "ok_empty" }
                THEN /\ Respond(SuccessResponse(variant, m, TextOf(reply), searchResults))
                     /\ UNCHANGED << midx, testResults >>
                ELSE LET tr == Push(testResults, FullDiagnostic(variant, m, reply))
                     IN  testResults' = tr /\ NextModelOrFail(midx, tr)
    /\ UNCHANGED << suspended, variant, env, request, searchVars >>

\* single-model handlers: the awaited request is answered
Single ==
    /\ variant \in { "enhanced", "diagnostic" }
    /\ pc = "single"
    /\ LET m == SingleModel(variant)
       IN  \E reply \in Replies(m, "completion") :
             /\ calls' = Append(calls, LlmCall(m, "completion", reply,
                                Content(variant, "completion", request.body, message, searchResults)))
             /\ Respond(CASE reply.kind = "throws"        -> InternalError(variant)
                          [] reply.kind = "ok_unreadable" -> InternalError(variant)
                          [] reply.kind = "not_ok"        -> SingleFailure(variant, reply)
                          [] reply.kind = "ok_empty"      -> SingleFailure(variant, reply)
                          [] reply.kind = "ok" ->
                               SuccessResponse(variant, m, reply.text, searchResults))
    /\ UNCHANGED << suspended, variant, env, request, midx, testResults, searchVars >>

(***************************************************************************)
(* Requests and configurations                                             *)
(***************************************************************************)
validApiKey == <<"s","k","-","a","n","t","-","a","p","i","0","3","-","k">>

otherApiKey == <<"s","k","-","o","l","d">>

supabaseUrl == <<"h","t","t","p","s",":","/","/","d","b">>

supabaseKey == <<"a","n","o","n">>

\* process.env; an unset variable is the empty string (both are falsy)
Envs ==
    [ ANTHROPIC_API_KEY : { << >>, validApiKey, otherApiKey },
      SUPABASE_URL      : { << >>, supabaseUrl },
      SUPABASE_ANON_KEY : { << >>, supabaseKey } ]

\* a prompt that wraps the user message the way the portal's client does
WrappedPrompt == <<"C","o","n","t","e","x","t","."," ","U","S","E","R"," ","M","E","S","S","A","G","E",":"," ","\"","h","e","l","l","o"," ","t","o","w","e","r","\""," ","E","n","d">>

PlainPrompt == <<"s","t","e","e","l"," ","c","o","d","e">>

\* a body on which const { prompt, ... } = JSON.parse(event.body) throws:
\* text that is not JSON, no body at all, or the JSON null
Unparseable == [ parses |-> FALSE ]

Json(fields) == [ parses |-> TRUE, fields |-> fields ]

Bodies ==
    { Unparseable,
      Json([ x \in {} |-> << >> ]),
      Json([ prompt |-> WrappedPrompt ]),
      Json([ prompt |-> PlainPrompt ]),
      Json([ userMessage |-> FindUpvcPipeProjects ]),
      Json([ userMessage |-> EveryCategory ]),
      Json([ prompt |-> PlainPrompt, userMessage |-> ShowMePendingApprovals ]) }

Requests ==
    { [ httpMethod |-> method, body |-> b ] :
          method \in { "OPTIONS", "GET" }, b \in { Unparseable, Json([ prompt |-> PlainPrompt ]) } }
    \cup { [ httpMethod |-> "POST", body |-> b ] : b \in Bodies }

Init ==
    /\ variant \in Variants
    /\ env \in Envs
    /\ store \in IF variant = "comprehensive" THEN Stores ELSE { StoreOf({}) }
    /\ request = NoValue
    /\ pc = "idle"
    /\ message = << >>
    /\ analysis = NoValue
    /\ results = NoValue
    /\ cat = 0
    /\ projectResults = NoValue
    /\ searchResults = NoValue
    /\ midx = 0
    /\ testResults = << >>
    /\ response = NoValue
    /\ calls = << >>
    /\ runs = 0
    /\ firstRun = NoValue
    /\ lastIndexLeft = NoMatchPositions
    /\ analysed = << >>
    /\ suspended = NoValue

Next ==
    \/ \E req \in Requests : Invoke(req)
    \/ \E ok \in BOOLEAN : Lookup(ok)
    \/ \E ok \in BOOLEAN : BroadProjects(ok)
    \/ \E ok \in BOOLEAN : BroadItems(ok)
    \/ TryModel
    \/ Probe
    \/ Full
    \/ Single

Spec == Init /\ [][Next]_vars

\* a pending await is resumed: the store lookup or the completion request
\* the handler waits for returns or throws
Resume ==
    \/ \E ok \in BOOLEAN : Lookup(ok)
    \/ \E ok \in BOOLEAN : BroadProjects(ok)
    \/ \E ok \in BOOLEAN : BroadItems(ok)
    \/ TryModel
    \/ Probe
    \/ Full
    \/ Single

\* the handlers under the assumption that every external call eventually
\* returns or throws
SpecFair == Spec /\ WF_vars(Resume)

(***************************************************************************)
(* Two invocations of the comprehensive handler in one process.  The       *)
(* handler keeps its state in the locals of the invocation and the module  *)
(* has no variable of its own, so each invocation has its own copy of the  *)
(* state; the variables above hold the copy of the invocation that runs,   *)
(* suspended that of the other one.  Control passes from one invocation to *)
(* the other only while the first waits at an await.                       *)
(***************************************************************************)
\* the local state of the invocation that runs
Frame ==
    [ request |-> request, pc |-> pc, message |-> message, analysis |-> analysis,
      results |-> results, cat |-> cat, projectResults |-> projectResults,
      searchResults |-> searchResults, midx |-> midx, testResults |-> testResults,
      response |-> response, calls |-> calls, runs |-> runs ]

\* the local state of an invocation that has not begun
IdleFrame ==
    [ request |-> NoValue, pc |-> "idle", message |-> << >>, analysis |-> NoValue,
      results |-> NoValue, cat |-> 0, projectResults |-> NoValue,
      searchResults |-> NoValue, midx |-> 0, testResults |-> << >>,
      response |-> NoValue, calls |-> << >>, runs |-> 0 ]

\* the invocation has begun and has not returned
InFlight(f) == f.pc \notin { "idle", "done" }

\* results is a variable of the module, shared by the invocations, instead
\* of a local of performComprehensiveSearch
Switch_SharedResults ==
    /\ suspended # NoValue
    /\ suspended.frame.pc # "done"
    /\ suspended' = [ frame |-> Frame,
                      interleaved |-> suspended.interleaved
                                        \/ (InFlight(Frame) /\ InFlight(suspended.frame)) ]
    /\ request' = suspended.frame.request
    /\ pc' = suspended.frame.pc
    /\ message' = suspended.frame.message
    /\ analysis' = suspended.frame.analysis
    /\ results' = results
    /\ cat' = suspended.frame.cat
    /\ projectResults' = suspended.frame.projectResults
    /\ searchResults' = suspended.frame.searchResults
    /\ midx' = suspended.frame.midx
    /\ testResults' = suspended.frame.testResults
    /\ response' = suspended.frame.response
    /\ calls' = suspended.frame.calls
    /\ runs' = suspended.frame.runs
    /\ UNCHANGED << variant, env, store, firstRun, lastIndexLeft, analysed >>

\* the invocation that runs waits at an await (or has returned, or has not
\* begun) and the event loop goes on with the other invocation: its event
\* arrives or its awaited call has settled
Switch ==
    /\ suspended # NoValue
    /\ suspended.frame.pc # "done"
    /\ suspended' = [ frame |-> Frame,
                      interleaved |-> suspended.interleaved
                                        \/ (InFlight(Frame) /\ InFlight(suspended.frame)) ]
    /\ request' = suspended.frame.request
    /\ pc' = suspended.frame.pc
    /\ message' = suspended.frame.message
    /\ analysis' = suspended.frame.analysis
    /\ results' = suspended.frame.results
    /\ cat' = suspended.frame.cat
    /\ projectResults' = suspended.frame.projectResults
    /\ searchResults' = suspended.frame.searchResults
    /\ midx' = suspended.frame.midx
    /\ testResults' = suspended.frame.testResults
    /\ response' = suspended.frame.response
    /\ calls' = suspended.frame.calls
    /\ runs' = suspended.frame.runs
    /\ UNCHANGED << variant, env, store, firstRun, lastIndexLeft, analysed >>

\* the configuration of the concurrent invocations: every credential is set
ConcurrentEnv ==
    [ ANTHROPIC_API_KEY |-> validApiKey, SUPABASE_URL |-> supabaseUrl,
      SUPABASE_ANON_KEY |-> supabaseKey ]

\* the requests of the concurrent invocations: one whose main pass finds a
\* project, one that needs the broad search
ConcurrentRequests ==
    { [ httpMethod |-> "POST", body |-> b ] :
          b \in { Json([ userMessage |-> FindUpvcPipeProjects ]),
                  Json([ prompt |-> WrappedPrompt ]) } }

\* the ways the completion requests of the concurrent invocations are
\* answered: with a text, without one, not at all
ConcurrentReplyKinds == { "ok", "ok_empty", "throws" }

\* the step issued no call, or one that was answered in one of the ways kinds
LatestReplyIn(kinds) == calls' = calls \/ calls'[Len(calls')].reply \in kinds

InitConcurrent ==
    /\ variant = "comprehensive"
    /\ env = ConcurrentEnv
    /\ store = StoreOf({1, 2})
    /\ request = NoValue
    /\ pc = "idle"
    /\ message = << >>
    /\ analysis = NoValue
    /\ results = NoValue
    /\ cat = 0
    /\ projectResults = NoValue
    /\ searchResults = NoValue
    /\ midx = 0
    /\ testResults = << >>
    /\ response = NoValue
    /\ calls = << >>
    /\ runs = 0
    /\ firstRun = NoValue
    /\ lastIndexLeft = NoMatchPositions
    /\ analysed = << >>
    /\ suspended = [ frame |-> IdleFrame, interleaved |-> FALSE ]

NextConcurrent ==
    \/ \E req \in ConcurrentRequests : Invoke(req)
    \/ \E ok \in BOOLEAN : Lookup(ok)
    \/ \E ok \in BOOLEAN : BroadProjects(ok)
    \/ \E ok \in BOOLEAN : BroadItems(ok)
    \/ TryModel /\ LatestReplyIn(ConcurrentReplyKinds)
    \/ Switch

SpecConcurrent == InitConcurrent /\ [][NextConcurrent]_vars



(***************************************************************************)
(* Properties                                                              *)
(***************************************************************************)
\* the calls to the completion API so far, in order
LlmCalls == SelectSeq(calls, LAMBDA c : c.api = "llm")

\* the calls to the row store made by aggregation r, in order
StoreCallsOf(r) == SelectSeq(calls, LAMBDA c : c.api = "store" /\ c.run = r)

\* the position of model m in the fallback list of the handler
ModelIndex(m) == CHOOSE i \in 1..Len(Models(variant)) : Models(variant)[i] = m

Responded == response # NoValue

\* the response is a JSON envelope with success: true
Succeeded == Responded /\ Has(response.body, "success") /\ response.body.success

\* the response is the soft failure shape: HTTP 200, success: false, fallback: true
SoftFailure ==
    /\ Responded
    /\ response.statusCode = 200
    /\ Has(response.body, "success") /\ ~response.body.success
    /\ Has(response.body, "fallback") /\ response.body.fallback

\* the response is the 'No working Claude models found' soft failure
NoWorkingModelReturned ==
    /\ Responded
    /\ Has(response.body, "error")
    /\ response.body.error = "No working Claude models found"

NoDuplicates(seq) == \A i, j \in 1..Len(seq) : seq[i] = seq[j] => i = j

\* C1: in every handler with a model fallback list the completion requests
\* go out in list order; once a model has answered OK with a non-empty text
\* no later model of the list is contacted, and a success response names
\* a model that answered so.
C1_FirstAnswerWins ==
    variant \in ListVariants =>
        /\ \A i, j \in 1..Len(LlmCalls) :
              i < j => ModelIndex(LlmCalls[i].model) <= ModelIndex(LlmCalls[j].model)
        /\ \A i, j \in 1..Len(LlmCalls) :
              (i < j /\ LlmCalls[i].reply = "ok") => LlmCalls[j].model = LlmCalls[i].model
        /\ Succeeded =>
              \E i \in 1..Len(LlmCalls) :
                  LlmCalls[i].reply = "ok" /\ LlmCalls[i].model = response.body.model

\* C2: the 'No working Claude models found' soft failure is returned only
\* after every model of the fallback list has been attempted.
C2_FailureOnlyAfterAllTried ==
    NoWorkingModelReturned =>
        \A k \in 1..Len(Models(variant)) :
            \E i \in 1..Len(LlmCalls) : LlmCalls[i].model = Models(variant)[k]

\* the request is a POST whose body parses and holds what the handler requires
ValidPost ==
    /\ request # NoValue
    /\ request.httpMethod = "POST"
    /\ request.body.parses
    /\ ~MissingInput(variant, request.body)

\* a credential the handler requires is absent
CredentialMissing ==
    \/ env.ANTHROPIC_API_KEY = << >>
    \/ variant = "comprehensive" /\ (env.SUPABASE_URL = << >> \/ env.SUPABASE_ANON_KEY = << >>)

\* C3: when a required credential is absent, a valid POST gets HTTP 200
\* with success: false and fallback: true, and no store lookup and no
\* completion request is issued.
C3_MissingCredentialSoftFailure ==
    (Responded /\ ValidPost /\ CredentialMissing) => (SoftFailure /\ calls = << >>)

\* a lookup of the aggregation failed
SomeLookupFailed == \E i \in 1..Len(calls) : calls[i].api = "store" /\ ~calls[i].ok

\* C4: when a row-store lookup fails during aggregation, the response of
\* the database-enriched handler is the soft failure shape (HTTP 200,
\* success: false, an error, fallback: true), never success: true.
C4_StoreErrorSoftFailure ==
    (Responded /\ SomeLookupFailed) => SoftFailure

(***************************************************************************)
(* Properties of the aggregation (SpecSearch)                              *)
(***************************************************************************)
\* the aggregation at hand has returned
Searched == pc = "searched"

\* the calls of the aggregation at hand
RunCalls == StoreCallsOf(runs)

MainCalls == SelectSeq(RunCalls, LAMBDA c : c.phase = "main")

BroadCalls == SelectSeq(RunCalls, LAMBDA c : c.phase = "broad")

\* the category keys present in an aggregation result
PresentKeys(sr) == { key \in CategoryKeys : Has(sr, key) }

\* a lookup of the main pass of the aggregation at hand failed
MainPassFailed == \E i \in 1..Len(MainCalls) : ~MainCalls[i].ok

RECURSIVE SumOfLengths(_, _)
\* the sum of the lengths of the row sets of the keys ks present in sr
SumOfLengths(sr, ks) ==
    IF ks = {} THEN 0
    ELSE LET key == CHOOSE x \in ks : TRUE
         IN  Len(sr[key].results) + SumOfLengths(sr, ks \ {key})

\* C5: if the lookup of an enabled category fails, the aggregation is
\* aborted: the value returned carries an error field, tablesSearched is
\* empty, totalResults is 0 and no row set is present.
C5_FailureAbortsAggregation ==
    (Searched /\ MainPassFailed) =>
        /\ Has(searchResults, "error")
        /\ searchResults.tablesSearched = << >>
        /\ searchResults.totalResults = 0
        /\ PresentKeys(searchResults) = {}

\* C5 witness: a lookup failed after an earlier one had returned rows
C5_Witness == Searched /\ MainPassFailed /\ results.totalResults > 0

\* every lookup of the main pass returned, and none returned a row
MainPassEmpty == Searched /\ ~MainPassFailed /\ results.totalResults = 0

projectsTable == Categories[1].table

itemCodesTable == Categories[2].table

\* C6: if every enabled category query returns zero rows, the broad
\* fallback queries projects and, once that lookup returned, item codes,
\* whatever the enable flags; it runs once (one projects lookup, at most one
\* item-code lookup, nothing else); afterwards tablesSearched holds at most
\* the two tables, and totalResults is the sum of the fallback's row sets.
\* If the main pass found a row, the fallback does not run.
C6_BroadFallbackOnce ==
    /\ MainPassEmpty =>
          /\ Len(BroadCalls) \in {1, 2}
          /\ BroadCalls[1].table = projectsTable
          /\ BroadCalls[1].ok => (Len(BroadCalls) = 2 /\ BroadCalls[2].table = itemCodesTable)
          /\ ~BroadCalls[1].ok => Len(BroadCalls) = 1
          /\ Range(searchResults.tablesSearched) \subseteq { projectsTable, itemCodesTable }
          /\ PresentKeys(searchResults) \subseteq { "projects", "itemCodes" }
          /\ searchResults.totalResults = SumOfLengths(searchResults, PresentKeys(searchResults))
    /\ (Searched /\ ~MainPassEmpty) => Len(BroadCalls) = 0

\* C6 witness: no category was enabled, the fallback ran both lookups and
\* found a project
C6_Witness ==
    /\ MainPassEmpty
    /\ ~analysis.searchProjects /\ ~analysis.searchItemCodes
    /\ Len(BroadCalls) = 2
    /\ searchResults.tablesSearched = << projectsTable >>

\* C7: in every result of performComprehensiveSearch a category's row set
\* is present iff its table is in tablesSearched, every present row set is
\* non-empty, tablesSearched has no duplicates, and totalResults is the sum
\* of the lengths of the present row sets (0 exactly when no table is listed).
C7_ResultConsistent ==
    Searched =>
        /\ \A k \in 1..Len(Categories) :
              /\ Has(searchResults, Categories[k].key)
                    <=> InSeq(Categories[k].table, searchResults.tablesSearched)
              /\ Has(searchResults, Categories[k].key)
                    => Len(searchResults[Categories[k].key].results) > 0
        /\ NoDuplicates(searchResults.tablesSearched)
        /\ searchResults.totalResults = SumOfLengths(searchResults, PresentKeys(searchResults))
        /\ searchResults.totalResults = 0 <=> searchResults.tablesSearched = << >>

\* C7 witness: a result with two populated categories, one category having
\* been queried and found empty
C7_Witness ==
    /\ Searched
    /\ Len(searchResults.tablesSearched) >= 2
    /\ Len(MainCalls) > Len(searchResults.tablesSearched)

\* no lookup of either aggregation failed
NoLookupFailed == \A i \in 1..Len(calls) : calls[i].api = "store" => calls[i].ok

Analyzed == analysis # NoValue

\* the eight category flags of an analysis
CategoryFlags(a) ==
    { a.searchProjects, a.searchItemCodes, a.searchUsers, a.searchRequests,
      a.searchManufacturers, a.searchAttributes, a.searchReviews, a.searchStatus }

\* the words of s: its maximal runs of word characters, lower-cased
WordsOf(s) ==
    { toLowerCase(SubSeq(s, i, j)) :
        <<i, j>> \in { p \in (1..Len(s)) \X (1..Len(s)) :
                         /\ p[1] <= p[2]
                         /\ \A x \in p[1]..p[2] : IsWordChar(s[x])
                         /\ ~WordAt(s, p[1] - 1)
                         /\ ~WordAt(s, p[2] + 1) } }

\* C9: for every message that contains a word of the material vocabulary,
\* materials holds that word lower-cased, without duplicates, and both
\* searchProjects and searchItemCodes are true.
C9_MaterialsExtracted ==
    Analyzed =>
        \A w \in Range(materialKeywords.alts) :
            w \in WordsOf(message) =>
                /\ InSeq(w, analysis.materials)
                /\ NoDuplicates(analysis.materials)
                /\ analysis.searchProjects
                /\ analysis.searchItemCodes

\* C9 witness: the same material twice, once capitalised, is held once
C9_Witness ==
    /\ Analyzed
    /\ message = <<"S","t","e","e","l",","," ","s","t","e","e","l">>
    /\ analysis.materials = << <<"s","t","e","e","l">> >>

\* C10: for "show me pending approvals" the analysis has intent search,
\* searchStatus true and searchReviews true.
C10_PendingApprovals ==
    (Analyzed /\ message = ShowMePendingApprovals) =>
        /\ analysis.intent = "search"
        /\ analysis.searchStatus
        /\ analysis.searchReviews

\* s is empty or made of stop-words and whitespace only
OnlyStopWords(s) ==
    /\ \A p \in 1..Len(s) : IsWordChar(s[p]) \/ IsSpace(s[p])
    /\ WordsOf(s) \subseteq Range(stopWords)

\* C11: for every message that is empty or consists only of stop-words
\* separated by whitespace, searchTerms is empty and all eight category
\* flags are false.
C11_StopWordsOnly ==
    (Analyzed /\ OnlyStopWords(message)) =>
        /\ analysis.searchTerms = << >>
        /\ CategoryFlags(analysis) = { FALSE }

\* the intents in the priority order of determineIntent
IntentPriority == << "search", "count", "who", "when", "why", "compare", "status" >>

\* the pattern tested at priority k matches the lower-cased message
IntentMatches(k) == RegexMatches(intentPatterns[k].re, toLowerCase(message))

\* C12: the intent is that of the first pattern, in the order search,
\* count, who, when, why, compare, status, that matches the message, and
\* general when no pattern matches.
C12_FirstIntentWins ==
    Analyzed =>
        /\ [ k \in 1..Len(intentPatterns) |-> intentPatterns[k].intent ] = IntentPriority
        /\ \A k \in 1..Len(IntentPriority) :
              (IntentMatches(k) /\ \A j \in 1..(k - 1) : ~IntentMatches(j))
                  => analysis.intent = IntentPriority[k]
        /\ (\A k \in 1..Len(IntentPriority) : ~IntentMatches(k)) => analysis.intent = "general"

\* C12 witness: 'approved' is in the who pattern and in the status pattern;
\* the earlier one gives the intent
C12_Witness ==
    /\ Analyzed
    /\ message = <<"a","p","p","r","o","v","e","d">>
    /\ IntentMatches(3) /\ IntentMatches(7)
    /\ analysis.intent = "who"

(***************************************************************************)
(* Properties of the handlers' request checks (Spec)                       *)
(***************************************************************************)
\* C13: in every handler an OPTIONS request gets HTTP 200 with an empty
\* body and the CORS headers, any method other than POST and OPTIONS gets
\* HTTP 405, and in both cases the body is not parsed (an unparseable body
\* changes nothing) and no store lookup or completion request is issued.
C13_MethodCheckFirst ==
    (Responded /\ request.httpMethod # "POST") =>
        /\ calls = << >>
        /\ request.httpMethod = "OPTIONS" =>
              /\ response.statusCode = 200
              /\ response.body = EmptyBody
              /\ DOMAIN response.headers =
                    { "AccessControlAllowOrigin", "AccessControlAllowHeaders",
                      "AccessControlAllowMethods" }
        /\ request.httpMethod # "OPTIONS" => response.statusCode = 405

\* C13 witness: an OPTIONS request with a body that does not parse was
\* answered 200
C13_Witness ==
    /\ Responded /\ request.httpMethod = "OPTIONS" /\ ~request.body.parses
    /\ response.statusCode = 200

\* the response is a JSON envelope with success: false
Failed == Responded /\ Has(response.body, "success") /\ ~response.body.success

\* C14: a POST whose body cannot be parsed gets HTTP 500, a POST whose body
\* has neither prompt nor userMessage gets HTTP 400, both with success:
\* false, and no store lookup or completion request is issued for it.
C14_MalformedRequest ==
    (Responded /\ request.httpMethod = "POST") =>
        /\ ~request.body.parses =>
              (response.statusCode = 500 /\ Failed /\ calls = << >>)
        /\ (/\ request.body.parses
            /\ Field(request.body, "prompt") = << >>
            /\ Field(request.body, "userMessage") = << >>) =>
              (response.statusCode = 400 /\ Failed /\ calls = << >>)

\* C14 witness: a body without the fields was answered 400 although the
\* API key is missing too
C14_Witness ==
    /\ Responded /\ request.httpMethod = "POST" /\ request.body.parses
    /\ request.body.fields = << >>
    /\ env.ANTHROPIC_API_KEY = << >>
    /\ response.statusCode = 400

\* C15: in every handler every response to a request other than OPTIONS is
\* a JSON envelope with a boolean success, and after a failed external
\* call the handler still runs on to such a response (it is never left
\* without a next step and never ends without the envelope).
C15_AlwaysAnEnvelope ==
    /\ (Responded /\ request.httpMethod # "OPTIONS") =>
          (Has(response.body, "success") /\ response.body.success \in BOOLEAN)
    /\ (request # NoValue /\ ~Responded) => ENABLED Next
    /\ pc = "done" => Responded

\* C15 witness: the store failed, every completion request threw, and the
\* handler answered with success: false
C15_Witness ==
    /\ variant = "comprehensive" /\ Failed
    /\ SomeLookupFailed
    /\ Len(LlmCalls) = Len(Models(variant))
    /\ \A i \in 1..Len(LlmCalls) : LlmCalls[i].reply = "throws"

(***************************************************************************)
(* Properties of the prompt (Spec)                                         *)
(***************************************************************************)
\* the prompts the comprehensive handler sent to the completion API
PromptsSent ==
    IF variant = "comprehensive"
    THEN { LlmCalls[i].content : i \in 1..Len(LlmCalls) }
    ELSE {}

\* the block headers of a prompt, in the order they appear
BlocksOf(p) == SelectSeq(p, LAMBDA part : part.kind = "block")

\* the place of a category in the fixed order
CategoryIndex(key) == CHOOSE k \in 1..Len(Categories) : Categories[k].key = key

\* the aggregate holds rows of the category
Populated(key) == Has(searchResults, key) /\ Len(searchResults[key].results) > 0

\* C16: in every prompt sent, the category blocks appear in the fixed
\* order projects, item codes, users, requests, manufacturers, attributes,
\* reviews, and only populated categories have a block.
C16_BlocksInFixedOrder ==
    \A p \in PromptsSent :
        LET b == BlocksOf(p)
        IN  /\ \A i, j \in 1..Len(b) :
                 i < j => CategoryIndex(b[i].category) < CategoryIndex(b[j].category)
            /\ \A i \in 1..Len(b) : Populated(b[i].category)

\* C16 witness: a prompt with the blocks of all seven categories was sent
C16_Witness ==
    \E p \in PromptsSent : Len(BlocksOf(p)) = Len(Categories)

\* C17: buildComprehensivePrompt does not fail on what
\* performComprehensiveSearch returned, and when totalResults is 0 the
\* prompt has the no-results sentence and no category block.
C17_PromptTotal ==
    /\ (variant = "comprehensive" /\ searchResults # NoValue) =>
          buildComprehensivePrompt(message, searchResults) # TypeError
    /\ \A p \in PromptsSent :
          searchResults.totalResults = 0 =>
             /\ \E i \in 1..Len(p) : p[i].kind = "noResults"
             /\ BlocksOf(p) = << >>

\* C17 witness: the aggregation returned its error-shaped value and the
\* prompt sent for it has the no-results sentence
C17_Witness ==
    \E p \in PromptsSent :
        /\ Has(searchResults, "error")
        /\ \E i \in 1..Len(p) : p[i].kind = "noResults"

\* the values of the row a part of a line is there to show
PartValues(row, part) ==
    CASE part.kind \in { "value", "or", "yesNo", "json" } -> { Column(row, part.field) }
      [] part.kind = "price" -> { Column(row, "unit_price"), Column(row, "currency_code") }
      [] part.kind = "join"  ->
            { JoinedColumn(row, part.relation, part.field) } \ { Undefined }
      [] OTHER -> {}

\* C18: in every prompt sent, each row's line shows the value of each of
\* its fields verbatim, whatever the value is (0, false, the empty string
\* and null included).
C18_ValuesVerbatim ==
    \A p \in PromptsSent : \A i \in 1..Len(p) :
        p[i].kind = "row" =>
            LET k   == CategoryIndex(p[i].category)
                row == searchResults[p[i].category].results[p[i].index]
            IN  \A n \in 1..Len(CategoryLines(k)) :
                \A j \in 1..Len(CategoryLines(k)[n].parts) :
                \A val \in PartValues(row, CategoryLines(k)[n].parts[j]) :
                    includes(p[i].lines[n].text, StringOf(val))

(***************************************************************************)
(* Properties of the pipeline of the comprehensive handler (Spec)          *)
(***************************************************************************)
\* C19: in the comprehensive handler the request is parsed and analysed
\* before the first store lookup, every store lookup has returned before
\* the first completion request is sent, and the prompt of every completion
\* request is the one built from the finished aggregate.
C19_SequentialPipeline ==
    variant = "comprehensive" =>
        /\ calls # << >> => (request # NoValue /\ request.body.parses /\ analysis # NoValue)
        /\ searchResults = NoValue => LlmCalls = << >>
        /\ \A i, j \in 1..Len(calls) :
              (i < j /\ calls[i].api = "llm") => calls[j].api = "llm"
        /\ \A i \in 1..Len(LlmCalls) :
              LlmCalls[i].content =
                  buildComprehensivePrompt(ActualUserMessage(request.body), searchResults)

\* C19 witness: after several store lookups a completion request was sent
\* with a prompt that holds a category block
C19_Witness ==
    /\ variant = "comprehensive"
    /\ Len(StoreCallsOf(1)) >= 2
    /\ \E i \in 1..Len(LlmCalls) : BlocksOf(LlmCalls[i].content) # << >>

UpvcProject == FixtureRows[1].row

\* The comprehensive handler got { userMessage: "find upvc pipe projects" },
\* the only row the store returns for the queries of the message is the
\* UPVC project, and the first model answered with a text.
UpvcScenario ==
    /\ variant = "comprehensive"
    /\ Responded
    /\ request.httpMethod = "POST"
    /\ request.body = Json([ userMessage |-> FindUpvcPipeProjects ])
    /\ store[Categories[1].table] = << UpvcProject >>
    /\ \A k \in 2..Len(Categories) :
          StoreSelect(store, CategoryQuery(k, analyzeUserQuery(FindUpvcPipeProjects))) = << >>
    /\ NoLookupFailed
    /\ Len(LlmCalls) = 1
    /\ LlmCalls[1].reply = "ok"

\* C22: in that scenario the analysis has materials = [upvc, pipe] and
\* searchProjects, the aggregate has the projects table as its only
\* tablesSearched entry and totalResults 1, the prompt has a PROJECTS block
\* with the row's id and name, and the response is a success: true envelope.
C22_UpvcScenario ==
    UpvcScenario =>
        /\ analysis.materials = << <<"u","p","v","c">>, <<"p","i","p","e">> >>
        /\ analysis.searchProjects
        /\ searchResults.tablesSearched = << "classification_projects" >>
        /\ searchResults.totalResults = 1
        /\ LET p == LlmCalls[1].content
           IN  /\ BlocksOf(p) = << [ kind |-> "block", category |-> "projects", found |-> 1 ] >>
               /\ \E i \in 1..Len(p) :
                     /\ p[i].kind = "row"
                     /\ p[i].category = "projects"
                     /\ p[i].lines[1].label = "Project ID"
                     /\ p[i].lines[1].text = NumToString(UpvcProject.id)
                     /\ p[i].lines[2].label = "Project Name"
                     /\ p[i].lines[2].text = UpvcProject.text.project_name
        /\ response.statusCode = 200
        /\ Succeeded
        /\ response.body.model = comprehensiveModels[1]

\* C22 witness: the scenario has run to its response
C22_Witness == UpvcScenario /\ store # StoreOf({1})

(***************************************************************************)
(* Properties of the category queries (SpecSearch)                         *)
(***************************************************************************)
\* the keywords and the columns a query's filter mentions
KeywordsOf(query) == { f.keyword : f \in Range(query.filters) }

ColumnsOf(query) == { f.column : f \in Range(query.filters) }

\* the filter has one ilike term for every column and every keyword it mentions
OrCombined(query) ==
    { << f.column, f.keyword >> : f \in Range(query.filters) }
        = ColumnsOf(query) \X KeywordsOf(query)

\* materials when there are any, otherwise at most the first three search terms
MaterialsElseThreeTerms(a) ==
    IF Len(a.materials) > 0 THEN Range(a.materials)
    ELSE Range(SliceFirst(a.searchTerms, 3))

\* the category index of a lookup of the main pass
CategoryOf(c) == CHOOSE k \in 1..Len(Categories) : Categories[k].table = c.table

\* C23 as stated: the keyword filter of every enabled category's lookup is
\* built from materials when non-empty, otherwise from at most the first
\* three searchTerms, OR-combined across columns and keywords.
C23_MaterialsElseThreeTermsEverywhere ==
    \A i \in 1..Len(MainCalls) :
        LET q == MainCalls[i].query
        IN  /\ OrCombined(q)
            /\ ColumnsOf(q) # {} => KeywordsOf(q) = MaterialsElseThreeTerms(analysis)

\* the keywords the code gives the lookup of category k
KeywordsFor(k, a) ==
    CASE k \in {1, 2}    -> MaterialsElseThreeTerms(a)
      [] k \in {3, 4, 6} -> Range(a.searchTerms)
      [] k = 5           -> Range(a.materials) \cup Range(a.searchTerms)
      [] k = 7           -> {}

\* C23 amended: the filter of the projects and the item-code lookup is built
\* from materials when non-empty, otherwise from at most the first three
\* searchTerms; the users, requests and attributes lookups take every search
\* term, the manufacturers lookup the materials and every search term, the
\* review-log lookup has no keyword filter; each filter is OR-combined
\* across its columns and keywords.
C23_KeywordsPerCategory ==
    \A i \in 1..Len(MainCalls) :
        LET q == MainCalls[i].query
        IN  /\ OrCombined(q)
            /\ KeywordsOf(q) = KeywordsFor(CategoryOf(MainCalls[i]), analysis)

\* C23 witness: a message without materials and with four search terms had
\* its item-code lookup (three terms) and its users lookup (four terms)
C23_Witness ==
    /\ Searched
    /\ analysis.materials = << >>
    /\ Len(analysis.searchTerms) = 4
    /\ \E i, j \in 1..Len(MainCalls) :
          /\ CategoryOf(MainCalls[i]) = 2
          /\ Cardinality(KeywordsOf(MainCalls[i].query)) = 3
          /\ CategoryOf(MainCalls[j]) = 3
          /\ Cardinality(KeywordsOf(MainCalls[j].query)) = 4

\* the rows of the projects table that have one of the CSI codes of the
\* analysis as division code and pass the keyword filter of the projects query
CsiAndKeywordRows ==
    { row \in Range(store["classification_projects"]) :
        /\ InSeq(row.division_code, analysis.csiCodes)
        /\ LET fs == ProjectsQuery(analysis).filters
           IN  fs = << >> \/ \E i \in 1..Len(fs) : IlikeMatches(row, fs[i]) }

\* C24: CSI codes restrict only the projects query, as exact membership of
\* the division code in the codes, combined (AND) with the keyword filter;
\* the query of no other category depends on csiCodes.
C24_CsiOnlyProjects ==
    \A i \in 1..Len(RunCalls) :
        LET c == RunCalls[i]
            k == CategoryOf(c)
        IN  /\ k = 1 => c.query.inDivisionCode = analysis.csiCodes
            /\ k # 1 => /\ c.query.inDivisionCode = << >>
                        /\ c.query = CategoryQuery(k, [ analysis EXCEPT !.csiCodes = << >> ])
            /\ (k = 1 /\ c.ok /\ analysis.csiCodes # << >>) =>
                  Range(StoreSelect(store, c.query)) = CsiAndKeywordRows

\* C24 witness: a projects lookup with a CSI code and a keyword left out a
\* row that has the keyword and a row that has the code, and another lookup
\* of the same aggregation was made
C24_Witness ==
    /\ Searched
    /\ message = Upvc03
    /\ Len(store["classification_projects"]) = 2
    /\ \E i, j \in 1..Len(RunCalls) :
          /\ CategoryOf(RunCalls[i]) = 1 /\ RunCalls[i].ok
          /\ RunCalls[i].query.filters # << >>
          /\ CategoryOf(RunCalls[j]) = 2
    /\ CsiAndKeywordRows = {}

\* C24 second case: the CSI code and the keyword select the one row that has both
C24_WitnessRow ==
    /\ Searched
    /\ analysis.csiCodes # << >> /\ analysis.materials # << >>
    /\ Has(searchResults, "projects")
    /\ Len(store["classification_projects"]) = 2
    /\ Cardinality(CsiAndKeywordRows) = 1

(***************************************************************************)
(* Properties of the search terms (SpecAnalyze)                            *)
(***************************************************************************)
\* C26: every element of searchTerms is a single lower-case word token: it
\* has no whitespace and no upper-case letter, is longer than two characters
\* and is not a stop-word.
C26_SingleWordTerms ==
    Analyzed =>
        \A i \in 1..Len(analysis.searchTerms) :
            LET term == analysis.searchTerms[i]
            IN  /\ \A p \in 1..Len(term) : IsWordChar(term[p]) /\ ~IsSpace(term[p])
                /\ term = toLowerCase(term)
                /\ Len(term) > 2
                /\ ~InSeq(term, stopWords)

(***************************************************************************)
(* Properties of the review-log lookup (SpecSearch)                        *)
(***************************************************************************)
\* the message contains a status keyword
HasStatusKeyword == RegexMatches(statusKeywords, toLowerCase(message))

\* the aggregation at hand issued the review-log lookup
ReviewLookupIssued ==
    \E i \in 1..Len(MainCalls) : MainCalls[i].table = "review_logs"

C27_WitnessTwoKeywords ==
    /\ Searched
    /\ message = PendingDraftUser
    /\ ~analysis.searchStatus
    /\ ReviewLookupIssued

(***************************************************************************)
(* Properties of a failure in the broad search (Spec)                      *)
(***************************************************************************)
\* a lookup of the broad search failed
BroadLookupFailed ==
    \E i \in 1..Len(calls) :
        calls[i].api = "store" /\ calls[i].phase = "broad" /\ ~calls[i].ok

\* C28: when a lookup of the broad search fails, the aggregation returns a
\* result without error, with tablesSearched empty, totalResults 0 and no
\* category rows (those of a fallback lookup that had succeeded included),
\* and the handler goes on to the completion request.
C28_BroadFailureSwallowed ==
    (variant = "comprehensive" /\ BroadLookupFailed /\ searchResults # NoValue) =>
        /\ ~Has(searchResults, "error")
        /\ searchResults.tablesSearched = << >>
        /\ searchResults.totalResults = 0
        /\ PresentKeys(searchResults) = {}
        /\ Has(searchResults, "queryAnalysis")
        /\ Responded =>
              /\ Len(LlmCalls) >= 1
              /\ LlmCalls[Len(LlmCalls)].reply = "ok" => Succeeded

\* C28 witness: the broad projects lookup had returned a row, the item-code
\* lookup failed, and the handler answered with a completion
C28_Witness ==
    /\ variant = "comprehensive"
    /\ BroadLookupFailed
    /\ projectResults # NoValue /\ Len(projectResults.results) > 0
    /\ Succeeded

(***************************************************************************)
(* Properties of the diagnostics and of the success envelope (Spec)        *)
(***************************************************************************)
\* the models a request was sent to
AttemptedModels == { LlmCalls[i].model : i \in 1..Len(LlmCalls) }

\* C25: whenever a handler with a model fallback list returns the
\* 'No working Claude models found' soft failure, the response carries one
\* diagnostic entry for every model that was attempted.
C25_DiagnosticPerModel ==
    (variant \in ListVariants /\ NoWorkingModelReturned) =>
        /\ Has(response.body, "testResults")
        /\ \A m \in AttemptedModels :
              Cardinality({ i \in 1..Len(response.body.testResults) :
                               response.body.testResults[i].model = m }) = 1

\* the non-empty text of a reply
IsResponseText(text) == text # NoValue /\ text # << >>

\* C29: in every handler variant a response with success: true carries a
\* non-empty response text, and its model field names the model whose
\* request produced that text.
C29_SuccessHasText ==
    Succeeded =>
        /\ IsResponseText(response.body.response)
        /\ response.body.response.by = response.body.model

(***************************************************************************)
(* Termination (SpecFair)                                                  *)
(***************************************************************************)
\* the number of calls that satisfy Test
CountCalls(Test(_)) == Cardinality({ i \in 1..Len(calls) : Test(calls[i]) })

\* no model of the list gets the same kind of request twice, no category is
\* looked up twice in the main pass, and each lookup of the broad search
\* runs at most once
NoStepRepeated ==
    /\ \A m \in AttemptedModels : \A purpose \in { "completion", "probe", "full" } :
          CountCalls(LAMBDA c : c.api = "llm" /\ c.model = m /\ c.purpose = purpose) <= 1
    /\ \A t \in Tables : \A phase \in { "main", "broad" } :
          CountCalls(LAMBDA c : c.api = "store" /\ c.table = t /\ c.phase = phase) <= 1
    /\ CountCalls(LAMBDA c : c.api = "store" /\ c.phase = "broad") <= 2

\* C30: when every external call eventually returns or throws, every
\* invocation eventually returns a response, and only one: the model loop
\* visits each list entry at most once, the broad search runs at most once,
\* no step is repeated, and after the response nothing more happens.
C30_Terminates ==
    /\ (request # NoValue) ~> Responded
    /\ []NoStepRepeated
    /\ [][Responded => (response' = response /\ calls' = calls)]_vars

\* C30 witness: the invocation ran the main pass, the broad search and the
\* whole model list, and returned
C30_Witness ==
    /\ Responded
    /\ CountCalls(LAMBDA c : c.api = "store" /\ c.phase = "main") >= 1
    /\ CountCalls(LAMBDA c : c.api = "store" /\ c.phase = "broad") = 2
    /\ Len(LlmCalls) = Len(Models(variant))

(***************************************************************************)
(* Concurrent invocations (SpecConcurrent)                                 *)
(***************************************************************************)
\* whether each store lookup of an invocation returned, in order
StoreOutcomes(cs) ==
    LET sc == SelectSeq(cs, LAMBDA c : c.api = "store")
    IN  [ i \in 1..Len(sc) |-> sc[i].ok ]

\* how each completion request of an invocation was answered, in order
ReplyKinds(cs) ==
    LET lc == SelectSeq(cs, LAMBDA c : c.api = "llm")
    IN  [ i \in 1..Len(lc) |-> lc[i].reply ]

\* what the broad search of an invocation that runs alone adds to res
BroadAlone(st, msg, a, res, oks) ==
    IF oks = << >> THEN NoValue
    ELSE IF ~oks[1] THEN FinishSearch(ObjectAssign(res, InitialBroadResults), msg, a)
    ELSE IF Len(oks) < 2 THEN NoValue
    ELSE LET p  == ResultSet(1, StoreSelect(st, ProjectsQuery(a)), a)
             it == ResultSet(2, StoreSelect(st, ItemCodesQuery(a)), a)
             broad == IF oks[2]
                      THEN AddResultSet(AddResultSet(InitialBroadResults, 1, p), 2, it)
                      ELSE InitialBroadResults
         IN  FinishSearch(ObjectAssign(res, broad), msg, a)

RECURSIVE SearchAlone(_, _, _, _, _, _)
\* what performComprehensiveSearch returns to an invocation that runs alone,
\* from the lookup of category k on (k = 0: the main pass is over), when its
\* lookups return or throw as oks says; NoValue while a lookup is pending
SearchAlone(st, msg, a, k, res, oks) ==
    IF k = 0
    THEN IF NeedsBroadSearch(res, a) THEN BroadAlone(st, msg, a, res, oks)
         ELSE FinishSearch(res, msg, a)
    ELSE IF oks = << >> THEN NoValue
    ELSE IF ~Head(oks) THEN ErrorResult(k, msg)
    ELSE SearchAlone(st, msg, a, NextEnabled(a, k + 1),
                     AddResultSet(res, k, ResultSet(k, StoreSelect(st, CategoryQuery(k, a)), a)),
                     Tail(oks))

RECURSIVE ModelsAlone(_, _, _, _, _)
\* the response of the model loop of an invocation that runs alone, from
\* list entry k on, when its requests are answered as kinds says
ModelsAlone(req, msg, sr, k, kinds) ==
    LET m == comprehensiveModels[k]
    IN  IF Content("comprehensive", "completion", req.body, msg, sr) = TypeError
        THEN InternalError("comprehensive")
        ELSE IF kinds = << >> THEN NoValue
        ELSE IF Head(kinds) = "ok"
        THEN SuccessResponse("comprehensive", m, [ by |-> m, purpose |-> "completion" ], sr)
        ELSE IF Head(kinds) = "ok_empty" \/ k = Len(comprehensiveModels)
        THEN NoWorkingModel("comprehensive", sr, << >>)
        ELSE ModelsAlone(req, msg, sr, k + 1, Tail(kinds))

\* the response of the comprehensive handler to req when it is the only
\* invocation, under configuration e and store st, when its external calls
\* are answered as in cs
RunAlone(req, e, st, cs) ==
    LET early == EarlyResponse("comprehensive", req, e)
    IN  IF early # NoValue THEN early
        ELSE LET msg == ActualUserMessage(req.body)
                 a   == analyzeUserQuery(msg)
                 sr  == SearchAlone(st, msg, a, NextEnabled(a, 1), InitialResults,
                                    StoreOutcomes(cs))
             IN  IF sr = NoValue THEN NoValue
                 ELSE ModelsAlone(req, msg, sr, 1, ReplyKinds(cs))

\* the invocations: the one that runs and the one that does not
Invocations == { Frame, suspended.frame }

\* C21: the response of each of two invocations that interleave at their
\* awaits is the one the handler gives to the invocation's own request,
\* under the configuration and the store, for the replies the invocation
\* itself received, when it runs alone.
C21_NoSharedState ==
    \A f \in Invocations :
        f.response # NoValue => f.response = RunAlone(f.request, env, store, f.calls)

\* C21 witness: both invocations have returned, a step of one was taken
\* while the other was waiting, one found its project in the main pass and
\* the other one its project in the broad search
C21_Witness ==
    /\ suspended.interleaved
    /\ \A f \in Invocations :
          /\ f.response # NoValue
          /\ Has(f.response.body, "success") /\ f.response.body.success
          /\ f.response.body.searchResults.totalResults = 1
    /\ request # suspended.frame.request

=============================================================================
